---- MODULE Spec2Model ----
(***************************************************************************)
(* ChatService of openvino-ai-toolkit (src/chat_service.py): the in-memory *)
(* session store, the model cache and the chat / get_history /             *)
(* delete_history / list_sessions / get_loaded_models operations.          *)
(*                                                                         *)
(* Every `with lock:` block of the source is two actions: the acquisition  *)
(* of the lock, and the body of the block together with the release.  The  *)
(* external model load and the external generation call are actions of     *)
(* their own that either succeed or raise.                                 *)
(***************************************************************************)
EXTENDS Integers, Sequences, FiniteSets, TLC

\* ------------------------------------------------------------------ bounds
\* Number of chat calls the model follows; the other operations are not
\* counted, they cannot grow the state.
MaxChats == 3
\* The clock (datetime.now()) runs from 0 to MaxTime.
MaxTime == 2
\* ChatService(max_history_messages=...), chat_service.py:83 (default 20).
max_history_messages == 1
\* ChatService(session_timeout_minutes=...), chat_service.py:84 (default 60).
session_timeout == 1
\* ChatService(max_sessions=...), chat_service.py:85 (default 100).
max_sessions == 1

\* ------------------------------------------------------------- vocabulary
Threads == {"t1", "t2"}
\* `None` for the optional string arguments of chat.
None == "None"
\* `session_id: Optional[str] = None`; session ids are the numbers 1, 2, ...
NoSessionId == 0
\* A caller-supplied session id that uuid4 never returns.
ForeignId == MaxChats + 1
\* self.model_name, the model loaded by the constructor.
DefaultModel == "m1"
ModelNames == {"m1", "m2"}
TaskTypes == {"general", "image_prompt_generation", "image_prompt_improvement"}
\* The lock is held by nobody.
Free == "free"
\* main.py, line 36: chat_service = None; service objects are the numbers 1, 2, ...
NoService == 0

VARIABLES
    sessions,       \* self.sessions: session id -> session record
    orphans,        \* session records removed from self.sessions that a
                    \* running chat still refers to (its local `session`)
    models,         \* self.models: model name -> generator handle
    tokenizers,     \* self.tokenizers: model name -> tokenizer handle
    sessions_lock,  \* holder of self.sessions_lock, or Free
    models_lock,    \* holder of self.models_lock, or Free
    use_mock,       \* self.use_mock
    now,            \* datetime.now()
    nextId,         \* number of session ids minted so far, plus one
    minted,         \* every id that has been a key of self.sessions (observation)
    chats,          \* number of chat calls started so far
    pc,             \* per thread: position in the running call
    op,             \* per thread: the operation of the current / last call
    arg,            \* per thread: arguments of the current / last call
    loc,            \* per thread: local variables of the running call
    result,         \* per thread: return value of the last call
    seen,           \* per thread: what the running chat found (observation)
    chat_service,   \* main.py: the global chat_service (NoService for None)
    chat_service_lock, \* main.py: holder of chat_service_lock, or Free
    instances       \* number of ChatService objects constructed so far

vars == <<chat_service, chat_service_lock, instances, sessions, orphans, models,
          tokenizers, sessions_lock, models_lock, use_mock,
          now, nextId, minted, chats, pc, op, arg, loc, result, seen>>

\* ---------------------------------------------------------------- helpers
Remove(f, S) == [k \in DOMAIN f \ S |-> f[k]]

Put(f, k, v) == [x \in DOMAIN f \cup {k} |-> IF x = k THEN v ELSE f[x]]

\* A message text is represented by the number of the call that supplied it
\* (message) and by what _detect_task_type reads from it (gen, imp).
NoArg == [message |-> 0, gen |-> FALSE, imp |-> FALSE,
          session_id |-> NoSessionId, system_prompt |-> None,
          model_name |-> None, task_type |-> None]

NoLoc == [session_id |-> NoSessionId, model_name |-> None, task_type |-> None,
          used_model |-> None, prompt |-> <<>>, generate_task_type |-> None,
          loaded |-> None, model |-> None, tokenizer |-> None, generated_text |-> 0,
          process_task_type |-> None, response_text |-> 0]

NoResult == [kind |-> "none"]

\* What a chat call found, recorded for the properties below: whether the
\* session it names was in the store and whether it was expired when
\* _cleanup_old_sessions looked at the store, how many sessions the store
\* held then, and whether _get_or_create_session created a session.
NoSeen == [named_present |-> FALSE, named_expired |-> FALSE, size |-> 0,
           created |-> FALSE]

\* ------------------------------------------------------ pure code, sessions
\* Truthiness of an Optional[str]: None and "" are false.
Truthy(s) == s # None /\ s # ""

\* TASK_PROMPTS: the default system prompt of each task type.
TASK_PROMPTS ==
    [image_prompt_improvement |-> "prompt editor instructions",
     image_prompt_generation |-> "prompt writer instructions",
     general |-> "helpful assistant instructions"]

\* _detect_task_type over the two facts the rules read from a message:
\* gen, a generation-intent rule matches; imp, an improvement-intent rule
\* matches.
DetectTaskType(message) ==
    IF message.gen THEN "image_prompt_generation"
    ELSE IF message.imp THEN "image_prompt_improvement"
    ELSE "general"

\* A variant of GetSystemPromptForTask that takes every prompt that is not
\* None, the empty one too (for C20).
SystemPromptIfGiven(task_type, custom_prompt) ==
    IF custom_prompt # None THEN custom_prompt
    ELSE IF task_type \in DOMAIN TASK_PROMPTS THEN TASK_PROMPTS[task_type]
    ELSE TASK_PROMPTS["general"]

\* _get_system_prompt_for_task
GetSystemPromptForTask(task_type, custom_prompt) ==
    IF Truthy(custom_prompt) THEN custom_prompt
    ELSE IF task_type \in DOMAIN TASK_PROMPTS THEN TASK_PROMPTS[task_type]
    ELSE TASK_PROMPTS["general"]

\* The order of sorted(self.sessions.items(), key=last_access): ascending
\* last access, and for equal keys (the sort is stable) the order of the
\* dict, which is the order of creation, the order of the ids.
SortsBefore(sess, r, s) ==
    \/ sess[r].last_access < sess[s].last_access
    \/ sess[r].last_access = sess[s].last_access /\ r < s

\* A variant of ExpiredSessions that lets a session live one unit of time
\* longer than session_timeout (for C7).
ExpiredLater(sess, current_time) ==
    {s \in DOMAIN sess :
        current_time - sess[s].last_access > session_timeout + 1}

\* Sessions removed by the first loop of _cleanup_old_sessions.
ExpiredSessions(sess, current_time) ==
    {s \in DOMAIN sess : current_time - sess[s].last_access > session_timeout}

\* A variant of OverLimitSessions that evicts one session less than the
\* excess over max_sessions (for C33).
OverLimitButOne(sess) ==
    IF Cardinality(DOMAIN sess) > max_sessions
    THEN LET num_to_remove == Cardinality(DOMAIN sess) - max_sessions - 1
         IN {s \in DOMAIN sess :
                Cardinality({r \in DOMAIN sess : SortsBefore(sess, r, s)})
                    < num_to_remove}
    ELSE {}

\* A variant of OverLimitSessions that makes room for the session of the
\* call: it evicts as soon as the store is full (for C25).
OverLimitFromFull(sess) ==
    IF Cardinality(DOMAIN sess) >= max_sessions
    THEN LET num_to_remove == Cardinality(DOMAIN sess) - max_sessions + 1
         IN {s \in DOMAIN sess :
                Cardinality({r \in DOMAIN sess : SortsBefore(sess, r, s)})
                    < num_to_remove}
    ELSE {}

\* Sessions removed by the second part of _cleanup_old_sessions, from the
\* sessions left by the first: the first num_to_remove of the sorted list.
OverLimitSessions(sess) ==
    IF Cardinality(DOMAIN sess) > max_sessions
    THEN LET num_to_remove == Cardinality(DOMAIN sess) - max_sessions
         IN {s \in DOMAIN sess :
                Cardinality({r \in DOMAIN sess : SortsBefore(sess, r, s)})
                    < num_to_remove}
    ELSE {}

\* _cleanup_old_sessions, the body of its `with self.sessions_lock:`.
CleanupOldSessions(sess, current_time) ==
    LET live == Remove(sess, ExpiredSessions(sess, current_time))
    IN Remove(live, OverLimitSessions(live))

\* A variant of NewSessionId that numbers a new session by the size of the
\* store, so that an id comes back after a removal (for C2).
SessionCountId(sess, next) == Cardinality(DOMAIN sess) + 1

\* str(uuid.uuid4()): an id that no earlier call returned.
NewSessionId(sess, next) == next

\* A variant of GetOrCreateSession that creates the session under the id of
\* the caller when the caller names one (for C37).
GetOrCreateUnderGivenId(sess, session_id, task_type, system_prompt, model_name, new_id, current_time) ==
    LET create == session_id = NoSessionId \/ session_id \notin DOMAIN sess
        sid == IF session_id = NoSessionId THEN new_id ELSE session_id
        s1 == IF create
              THEN Put(sess, sid,
                       [messages |-> <<>>,
                        system_prompt |->
                            GetSystemPromptForTask(task_type, system_prompt),
                        model_name |-> model_name,
                        task_type |-> task_type,
                        created_at |-> current_time,
                        last_access |-> current_time])
              ELSE IF Truthy(system_prompt)
              THEN [sess EXCEPT ![sid].system_prompt = system_prompt,
                                ![sid].task_type = task_type]
              ELSE sess
        s2 == IF Truthy(model_name)
              THEN [s1 EXCEPT ![sid].model_name = model_name]
              ELSE s1
    IN <<sid, [s2 EXCEPT ![sid].last_access = current_time]>>

\* A variant of GetOrCreateSession that leaves the model of an existing
\* session as it is (for C23).
GetOrCreateKeepingModel(sess, session_id, task_type, system_prompt, model_name, new_id, current_time) ==
    LET create == session_id = NoSessionId \/ session_id \notin DOMAIN sess
        sid == IF create THEN new_id ELSE session_id
        s1 == IF create
              THEN Put(sess, sid,
                       [messages |-> <<>>,
                        system_prompt |->
                            GetSystemPromptForTask(task_type, system_prompt),
                        model_name |-> model_name,
                        task_type |-> task_type,
                        created_at |-> current_time,
                        last_access |-> current_time])
              ELSE IF Truthy(system_prompt)
              THEN [sess EXCEPT ![sid].system_prompt = system_prompt,
                                ![sid].task_type = task_type]
              ELSE sess
    IN <<sid, [s1 EXCEPT ![sid].last_access = current_time]>>

\* _get_or_create_session: <<session id, self.sessions afterwards>>.
GetOrCreateSession(sess, session_id, task_type, system_prompt, model_name, new_id, current_time) ==
    LET create == session_id = NoSessionId \/ session_id \notin DOMAIN sess
        sid == IF create THEN new_id ELSE session_id
        s1 == IF create
              THEN Put(sess, sid,
                       [messages |-> <<>>,
                        system_prompt |->
                            GetSystemPromptForTask(task_type, system_prompt),
                        model_name |-> model_name,
                        task_type |-> task_type,
                        created_at |-> current_time,
                        last_access |-> current_time])
              ELSE IF Truthy(system_prompt)
              THEN [sess EXCEPT ![sid].system_prompt = system_prompt,
                                ![sid].task_type = task_type]
              ELSE sess
        s2 == IF Truthy(model_name)
              THEN [s1 EXCEPT ![sid].model_name = model_name]
              ELSE s1
    IN <<sid, [s2 EXCEPT ![sid].last_access = current_time]>>

\* The last n elements of a list: list[-n:] for n >= 1.
LastN(list, n) ==
    IF Len(list) > n THEN SubSeq(list, Len(list) - n + 1, Len(list)) ELSE list

\* _add_user_message: session["messages"] afterwards.
AddUserMessage(messages, message) ==
    LET appended == Append(messages, [role |-> "user", content |-> message])
    IN IF Len(appended) > max_history_messages * 2
       THEN LastN(appended, max_history_messages * 2)
       ELSE appended

\* A variant of FormatPrompt that renders the history without its newest
\* message (for C26).
FormatPromptOfHistory(messages, system_prompt, model_name) ==
    [messages |-> SubSeq(messages, 1, Len(messages) - 1),
     system_prompt |-> system_prompt, model_name |-> model_name]

\* _format_prompt, as the data it renders: a copy of the message list, the
\* system prompt, and the model name that selects the template.
FormatPrompt(messages, system_prompt, model_name) ==
    [messages |-> messages, system_prompt |-> system_prompt,
     model_name |-> model_name]

\* The assistant message chat appends.
AssistantMessage(response_text) ==
    [role |-> "assistant", content |-> response_text]

\* ------------------------------------------------------------------- Init
\* The state after ChatService.__init__ returned: in mock mode nothing is
\* loaded, otherwise the default model and its tokenizer are.
Init ==
    /\ chat_service = 1
    /\ chat_service_lock = Free
    /\ instances = 1
    /\ sessions = <<>>
    /\ orphans = <<>>
    /\ use_mock \in BOOLEAN
    /\ models = IF use_mock THEN <<>> ELSE [m \in {DefaultModel} |-> "init"]
    /\ tokenizers = models
    /\ sessions_lock = Free
    /\ models_lock = Free
    /\ now = 0
    /\ nextId = 1
    /\ minted = {}
    /\ chats = 0
    /\ pc = [t \in Threads |-> "idle"]
    /\ op = [t \in Threads |-> "none"]
    /\ arg = [t \in Threads |-> NoArg]
    /\ loc = [t \in Threads |-> NoLoc]
    /\ result = [t \in Threads |-> NoResult]
    /\ seen = [t \in Threads |-> NoSeen]

\* ------------------------------------------------- the local `session` of chat
\* The positions of chat at which its local variable `session` refers to a
\* session record (from line 681 to the return).
WithSession ==
    {"generate", "load_acquire", "load_check", "loading", "install_acquire",
     "install", "install_tokenizer", "read_acquire", "read", "generating", "process",
     "append_acquire", "append"}

Referenced(id) == \E t \in Threads : pc[t] \in WithSession /\ loc[t].session_id = id

\* The orphans after self.sessions went from `before` to `after`: a record
\* deleted from the dict lives on while a chat refers to it.
Orphaned(before, after) ==
    LET gone == {id \in DOMAIN before \ DOMAIN after : Referenced(id)}
    IN [id \in DOMAIN orphans \cup gone |->
            IF id \in gone THEN before[id] ELSE orphans[id]]

\* The orphans `orph` after the chat of thread t returned and dropped its
\* reference.
Dropped(orph, t) ==
    LET id == loc[t].session_id
    IN IF \E u \in Threads \ {t} : pc[u] \in WithSession /\ loc[u].session_id = id
       THEN orph
       ELSE Remove(orph, {id})

\* The record the local `session` of thread t refers to.
SessionOf(t) ==
    IF loc[t].session_id \in DOMAIN sessions
    THEN sessions[loc[t].session_id]
    ELSE orphans[loc[t].session_id]

\* --------------------------------------------------------------- the clock
Tick ==
    /\ now < MaxTime
    /\ now' = now + 1
    /\ UNCHANGED <<chat_service, chat_service_lock, instances, sessions, orphans, models, tokenizers, sessions_lock, models_lock,
                   use_mock, nextId, minted, chats, pc, op, arg, loc, result, seen>>

\* ------------------------------------------------------------------- chat
\* Session ids a caller can supply: none, an id some chat returned, or a
\* string of its own.
SessionIdArgs == (0 .. nextId - 1) \cup {ForeignId}

\* The other arguments of chat: what _detect_task_type reads from the
\* message (gen, imp), system_prompt, model_name, task_type.
ChatOptions(gens, imps, system_prompts, model_names, task_types) ==
    [gen : gens, imp : imps, system_prompt : system_prompts,
     model_name : model_names, task_type : task_types]

\* chat(message): the default model answers a general message.
DefaultOptions == ChatOptions({FALSE}, {FALSE}, {None}, {None}, {None})

\* chat(message) and chat(message, model_name="m2").
ModelOptions == ChatOptions({FALSE}, {FALSE}, {None}, {None, "m2"}, {None})

\* chat, lines 671-675: the call starts with a session id of `sids` and
\* options of `options` (at most `limit` chat calls are followed);
\* model_name and task_type get their defaults.
ChatCall(t, sids, options, limit) ==
    /\ pc[t] = "idle"
    /\ chats < limit
    /\ \E sid \in sids, o \in options :
         LET a == [message |-> chats + 1, gen |-> o.gen, imp |-> o.imp,
                   session_id |-> sid, system_prompt |-> o.system_prompt,
                   model_name |-> o.model_name, task_type |-> o.task_type]
         IN /\ arg' = [arg EXCEPT ![t] = a]
            /\ loc' = [loc EXCEPT ![t] =
                 [NoLoc EXCEPT
                    !.session_id = sid,
                    !.model_name = IF o.model_name = None THEN DefaultModel
                                   ELSE o.model_name,
                    !.task_type = IF o.task_type = None THEN DetectTaskType(a)
                                  ELSE o.task_type]]
    /\ chats' = chats + 1
    /\ op' = [op EXCEPT ![t] = "chat"]
    /\ pc' = [pc EXCEPT ![t] = "cleanup_acquire"]
    /\ result' = [result EXCEPT ![t] = NoResult]
    /\ seen' = [seen EXCEPT ![t] = NoSeen]
    /\ UNCHANGED <<chat_service, chat_service_lock, instances, sessions, orphans, models, tokenizers, sessions_lock,
                   models_lock, use_mock, now, nextId, minted>>

\* _cleanup_old_sessions: `with self.sessions_lock:` is entered.
CleanupAcquire(t) ==
    /\ pc[t] = "cleanup_acquire"
    /\ sessions_lock = Free
    /\ sessions_lock' = t
    /\ pc' = [pc EXCEPT ![t] = "cleanup"]
    /\ UNCHANGED <<chat_service, chat_service_lock, instances, sessions, orphans, models, tokenizers, models_lock, use_mock, now,
                   nextId, minted, chats, op, arg, loc, result, seen>>

\* _cleanup_old_sessions: the body, and the release of the lock.
Cleanup(t) ==
    /\ pc[t] = "cleanup"
    /\ sessions' = CleanupOldSessions(sessions, now)
    /\ orphans' = Orphaned(sessions, sessions')
    /\ sessions_lock' = Free
    /\ pc' = [pc EXCEPT ![t] = "session_acquire"]
    /\ seen' = [seen EXCEPT
          ![t].named_present = arg[t].session_id \in DOMAIN sessions,
          ![t].named_expired =
              arg[t].session_id \in ExpiredSessions(sessions, now),
          ![t].size = Cardinality(DOMAIN sessions)]
    /\ UNCHANGED <<chat_service, chat_service_lock, instances, models, tokenizers, models_lock, use_mock, now, nextId, minted,
                   chats, op, arg, loc, result>>

\* chat, line 680: `with self.sessions_lock:` is entered.
SessionAcquire(t) ==
    /\ pc[t] = "session_acquire"
    /\ sessions_lock = Free
    /\ sessions_lock' = t
    /\ pc' = [pc EXCEPT ![t] = "session"]
    /\ UNCHANGED <<chat_service, chat_service_lock, instances, sessions, orphans, models, tokenizers, models_lock, use_mock, now,
                   nextId, minted, chats, op, arg, loc, result, seen>>

\* chat, line 681: <<session_id, self.sessions>> after
\* _get_or_create_session, for the call of thread t.
SessionFound(t) ==
    GetOrCreateSession(sessions, loc[t].session_id, loc[t].task_type,
                       arg[t].system_prompt, loc[t].model_name,
                       NewSessionId(sessions, nextId), now)

\* chat, line 683: session["messages"] after _add_user_message.
SessionMessages(t) ==
    AddUserMessage(SessionFound(t)[2][SessionFound(t)[1]].messages,
                   arg[t].message)

\* chat, lines 681-684: the session is found or created, the user message is
\* added, the prompt is rendered from a copy of the messages; the lock is
\* released.
SessionStep(t) ==
    /\ pc[t] = "session"
    /\ sessions' = [SessionFound(t)[2] EXCEPT
          ![SessionFound(t)[1]].messages = SessionMessages(t)]
    /\ nextId' = IF SessionFound(t)[1] \in DOMAIN sessions THEN nextId
                 ELSE nextId + 1
    /\ minted' = minted \cup {SessionFound(t)[1]}
    /\ loc' = [loc EXCEPT
          ![t].session_id = SessionFound(t)[1],
          ![t].used_model =
              SessionFound(t)[2][SessionFound(t)[1]].model_name,
          ![t].prompt =
              FormatPrompt(SessionMessages(t),
                  SessionFound(t)[2][SessionFound(t)[1]].system_prompt,
                  SessionFound(t)[2][SessionFound(t)[1]].model_name)]
    /\ seen' = [seen EXCEPT ![t].created =
          loc[t].session_id = NoSessionId
              \/ loc[t].session_id \notin DOMAIN sessions]
    /\ sessions_lock' = Free
    /\ pc' = [pc EXCEPT ![t] = "generate"]
    /\ UNCHANGED <<chat_service, chat_service_lock, instances, orphans, models, tokenizers, models_lock, use_mock, now, chats, op,
                   arg, result>>

\* A variant of GenerateStart that does not look at the mock flag (for C29).
GenerateStartIgnoringMock(t) ==
    /\ pc[t] = "generate"
    /\ loc' = [loc EXCEPT
          ![t].generate_task_type = SessionOf(t).task_type,
          ![t].generated_text = 0]
    /\ pc' = [pc EXCEPT ![t] =
          IF loc[t].used_model \notin DOMAIN models THEN "load_acquire"
          ELSE "read_acquire"]
    /\ UNCHANGED <<chat_service, chat_service_lock, instances, sessions, orphans, models, tokenizers, sessions_lock,
                   models_lock, use_mock, now, nextId, minted, chats, op, arg, result,
                   seen>>

\* chat, line 686: session.get("task_type", "general") is read and
\* _generate_response starts (lines 461-467): the mock answers at once,
\* a model that is not in self.models (read without the lock) is loaded.
GenerateStart(t) ==
    /\ pc[t] = "generate"
    /\ loc' = [loc EXCEPT
          ![t].generate_task_type = SessionOf(t).task_type,
          ![t].generated_text = IF use_mock THEN arg[t].message ELSE 0]
    /\ pc' = [pc EXCEPT ![t] =
          IF use_mock THEN "process"
          ELSE IF loc[t].used_model \notin DOMAIN models THEN "load_acquire"
          ELSE "read_acquire"]
    /\ UNCHANGED <<chat_service, chat_service_lock, instances, sessions, orphans, models, tokenizers, sessions_lock,
                   models_lock, use_mock, now, nextId, minted, chats, op, arg, result,
                   seen>>

\* _load_model, line 129: `with self.models_lock:` is entered.
LoadAcquire(t) ==
    /\ pc[t] = "load_acquire"
    /\ models_lock = Free
    /\ models_lock' = t
    /\ pc' = [pc EXCEPT ![t] = "load_check"]
    /\ UNCHANGED <<chat_service, chat_service_lock, instances, sessions, orphans, models, tokenizers, sessions_lock,
                   use_mock, now, nextId, minted, chats, op, arg, loc, result, seen>>

\* A variant of LoadCheck that stays inside `with self.models_lock:` while
\* the model is loaded (for C13).
LoadCheckKeepingLock(t) ==
    /\ pc[t] = "load_check"
    /\ pc' = [pc EXCEPT ![t] =
          IF loc[t].used_model \in DOMAIN models THEN "read_acquire"
          ELSE "loading"]
    /\ models_lock' =
          IF loc[t].used_model \in DOMAIN models THEN Free ELSE models_lock
    /\ UNCHANGED <<chat_service, chat_service_lock, instances, sessions, orphans, models, tokenizers, sessions_lock,
                   use_mock, now, nextId, minted, chats, op, arg, loc, result, seen>>

\* _load_model, lines 130-132: a model that is loaded is not loaded again.
LoadCheck(t) ==
    /\ pc[t] = "load_check"
    /\ models_lock' = Free
    /\ pc' = [pc EXCEPT ![t] =
          IF loc[t].used_model \in DOMAIN models THEN "read_acquire"
          ELSE "loading"]
    /\ UNCHANGED <<chat_service, chat_service_lock, instances, sessions, orphans, models, tokenizers, sessions_lock,
                   use_mock, now, nextId, minted, chats, op, arg, loc, result, seen>>

\* How chat ends on an exception (lines 704-706): {"error": str(e)}.
ChatError(t, e) ==
    /\ result' = [result EXCEPT ![t] = [kind |-> "error", error |-> e]]
    /\ pc' = [pc EXCEPT ![t] = "idle"]
    /\ orphans' = Dropped(orphans, t)

\* _load_model, lines 134-151: OVModelForCausalLM.from_pretrained and
\* AutoTokenizer.from_pretrained return; the handles are local so far.
LoadOk(t) ==
    /\ pc[t] = "loading"
    /\ loc' = [loc EXCEPT ![t].loaded = t]
    /\ pc' = [pc EXCEPT ![t] = "install_acquire"]
    /\ UNCHANGED <<chat_service, chat_service_lock, instances, sessions, orphans, models, tokenizers, sessions_lock,
                   models_lock, use_mock, now, nextId, minted, chats, op, arg, result,
                   seen>>

\* A variant of CacheAfterLoadError in which the failed load leaves an entry
\* behind (for C10).
CacheWithPartialEntry(cache, model_name) == Put(cache, model_name, "partial")

\* self.models and self.tokenizers after the `except` of _load_model (lines
\* 159-161): the handles loaded so far were local, the error is logged and
\* raised again.
CacheAfterLoadError(cache, model_name) == cache

\* _load_model, lines 159-161: one of the two loads raises; the exception
\* passes through _generate_response to chat.
LoadFail(t) ==
    /\ pc[t] = "loading"
    /\ ChatError(t, "load failed")
    /\ models' = CacheAfterLoadError(models, loc[t].used_model)
    /\ tokenizers' = CacheAfterLoadError(tokenizers, loc[t].used_model)
    /\ UNCHANGED <<chat_service, chat_service_lock, instances, sessions, sessions_lock, models_lock,
                   use_mock, now, nextId, minted, chats, op, arg, loc, seen>>

\* _load_model, line 153: `with self.models_lock:` is entered.
InstallAcquire(t) ==
    /\ pc[t] = "install_acquire"
    /\ models_lock = Free
    /\ models_lock' = t
    /\ pc' = [pc EXCEPT ![t] = "install"]
    /\ UNCHANGED <<chat_service, chat_service_lock, instances, sessions, orphans, models, tokenizers, sessions_lock,
                   use_mock, now, nextId, minted, chats, op, arg, loc, result, seen>>

\* self.models after line 154: the loaded model is stored.
InstallModel(cache, model_name, handle) == Put(cache, model_name, handle)

\* A variant of InstallTokenizer that stores no tokenizer (for C12).
TokenizerNotInstalled(cache, model_name, handle) == cache

\* self.tokenizers after line 155: the loaded tokenizer is stored.
InstallTokenizer(cache, model_name, handle) == Put(cache, model_name, handle)

\* _load_model, line 154.
Install(t) ==
    /\ pc[t] = "install"
    /\ models' = InstallModel(models, loc[t].used_model, loc[t].loaded)
    /\ pc' = [pc EXCEPT ![t] = "install_tokenizer"]
    /\ UNCHANGED <<chat_service, chat_service_lock, instances, sessions, orphans, tokenizers, sessions_lock, models_lock,
                   use_mock, now, nextId, minted, chats, op, arg, loc, result,
                   seen>>

\* _load_model, line 155, and the release of the lock.
InstallTokenizerStep(t) ==
    /\ pc[t] = "install_tokenizer"
    /\ tokenizers' = InstallTokenizer(tokenizers, loc[t].used_model,
                                      loc[t].loaded)
    /\ models_lock' = Free
    /\ pc' = [pc EXCEPT ![t] = "read_acquire"]
    /\ UNCHANGED <<chat_service, chat_service_lock, instances, sessions, orphans, models, sessions_lock, use_mock, now,
                   nextId, minted, chats, op, arg, loc, result, seen>>

\* _generate_response, line 470: `with self.models_lock:` is entered.
ReadAcquire(t) ==
    /\ pc[t] = "read_acquire"
    /\ models_lock = Free
    /\ models_lock' = t
    /\ pc' = [pc EXCEPT ![t] = "read"]
    /\ UNCHANGED <<chat_service, chat_service_lock, instances, sessions, orphans, models, tokenizers, sessions_lock,
                   use_mock, now, nextId, minted, chats, op, arg, loc, result, seen>>

\* A variant of ReadModel that generates inside `with self.models_lock:`
\* (for C14).
ReadModelKeepingLock(t) ==
    /\ pc[t] = "read"
    /\ IF loc[t].used_model \in DOMAIN models
          /\ loc[t].used_model \in DOMAIN tokenizers
       THEN /\ loc' = [loc EXCEPT
                  ![t].model = models[loc[t].used_model],
                  ![t].tokenizer = tokenizers[loc[t].used_model]]
            /\ pc' = [pc EXCEPT ![t] = "generating"]
            /\ UNCHANGED <<chat_service, chat_service_lock, instances, orphans, result, models_lock>>
       ELSE /\ ChatError(t, "KeyError")
            /\ models_lock' = Free
            /\ UNCHANGED loc
    /\ UNCHANGED <<chat_service, chat_service_lock, instances, sessions, models, tokenizers, sessions_lock, use_mock, now,
                   nextId, minted, chats, op, arg, seen>>

\* _generate_response, lines 471-472: the two handles are read (a missing
\* key raises KeyError, which chat reports), and the lock is released.
ReadModel(t) ==
    /\ pc[t] = "read"
    /\ models_lock' = Free
    /\ IF loc[t].used_model \in DOMAIN models
          /\ loc[t].used_model \in DOMAIN tokenizers
       THEN /\ loc' = [loc EXCEPT
                  ![t].model = models[loc[t].used_model],
                  ![t].tokenizer = tokenizers[loc[t].used_model]]
            /\ pc' = [pc EXCEPT ![t] = "generating"]
            /\ UNCHANGED <<chat_service, chat_service_lock, instances, orphans, result>>
       ELSE /\ ChatError(t, "KeyError")
            /\ UNCHANGED loc
    /\ UNCHANGED <<chat_service, chat_service_lock, instances, sessions, models, tokenizers, sessions_lock, use_mock, now,
                   nextId, minted, chats, op, arg, seen>>

\* _generate_response, lines 475-535: tokenizer, model.generate and decode
\* return, the text is cleaned and post-processed for the task type read at
\* line 686.  The text is represented by the number of the call.
GenerateOk(t) ==
    /\ pc[t] = "generating"
    /\ loc' = [loc EXCEPT ![t].generated_text = arg[t].message]
    /\ pc' = [pc EXCEPT ![t] = "process"]
    /\ UNCHANGED <<chat_service, chat_service_lock, instances, sessions, orphans, models, tokenizers, sessions_lock,
                   models_lock, use_mock, now, nextId, minted, chats, op, arg, result,
                   seen>>

\* A variant of SessionsAfterChatError in which the error is recorded in the
\* session as an assistant message (for C9).
SessionsWithErrorReply(sess, session_id) ==
    IF session_id \in DOMAIN sess
    THEN [sess EXCEPT ![session_id].messages =
             Append(@, [role |-> "assistant", content |-> 0])]
    ELSE sess

\* self.sessions after the `except` of chat (lines 704-706): the error is
\* logged and returned, the session keeps what the call had added to it.
SessionsAfterChatError(sess, session_id) == sess

\* _generate_response, lines 537-539: the generation raises, and chat turns
\* the exception into its result.
GenerateFail(t) ==
    /\ pc[t] = "generating"
    /\ ChatError(t, "generation failed")
    /\ sessions' = SessionsAfterChatError(sessions, loc[t].session_id)
    /\ UNCHANGED <<chat_service, chat_service_lock, instances, models, tokenizers, sessions_lock, models_lock,
                   use_mock, now, nextId, minted, chats, op, arg, loc, seen>>

\* chat, line 687: session.get("task_type") is read again and
\* _process_task_specific_response gives the response text.
Process(t) ==
    /\ pc[t] = "process"
    /\ loc' = [loc EXCEPT
          ![t].process_task_type = SessionOf(t).task_type,
          ![t].response_text = loc[t].generated_text]
    /\ pc' = [pc EXCEPT ![t] = "append_acquire"]
    /\ UNCHANGED <<chat_service, chat_service_lock, instances, sessions, orphans, models, tokenizers, sessions_lock,
                   models_lock, use_mock, now, nextId, minted, chats, op, arg, result,
                   seen>>

\* chat, line 689: `with self.sessions_lock:` is entered.
AppendAcquire(t) ==
    /\ pc[t] = "append_acquire"
    /\ sessions_lock = Free
    /\ sessions_lock' = t
    /\ pc' = [pc EXCEPT ![t] = "append"]
    /\ UNCHANGED <<chat_service, chat_service_lock, instances, sessions, orphans, models, tokenizers, models_lock,
                   use_mock, now, nextId, minted, chats, op, arg, loc, result, seen>>

\* A variant of AppendAssistantMessage that puts the message at the front of
\* the list (for C24).
InsertAssistantMessage(messages, response_text) ==
    <<AssistantMessage(response_text)>> \o messages

\* session["messages"] after line 695.
AppendAssistantMessage(messages, response_text) ==
    Append(messages, AssistantMessage(response_text))

\* A variant of AppendAssistant that stores the record under its id again,
\* as self.sessions[session_id] = session would (for C32).
AppendAssistantRestoring(t) ==
    /\ pc[t] = "append"
    /\ sessions' = Put(sessions, loc[t].session_id,
          [SessionOf(t) EXCEPT !.messages =
              AppendAssistantMessage(@, loc[t].response_text)])
    /\ orphans' = Remove(orphans, {loc[t].session_id})
    /\ sessions_lock' = Free
    /\ result' = [result EXCEPT ![t] =
          [kind |-> "response", response |-> loc[t].response_text,
           session_id |-> loc[t].session_id, model |-> loc[t].used_model]]
    /\ pc' = [pc EXCEPT ![t] = "idle"]
    /\ UNCHANGED <<chat_service, chat_service_lock, instances, models, tokenizers,
                   models_lock, use_mock, now, nextId, minted, chats, op, arg, loc, seen>>

\* chat, lines 690-702: the assistant message is appended to the record the
\* local `session` refers to, the lock is released and chat returns.
AppendAssistant(t) ==
    /\ pc[t] = "append"
    /\ LET id == loc[t].session_id
           msgs == AppendAssistantMessage(SessionOf(t).messages,
                                          loc[t].response_text)
       IN IF id \in DOMAIN sessions
          THEN sessions' = [sessions EXCEPT ![id].messages = msgs]
          ELSE UNCHANGED sessions
    /\ orphans' = Dropped(
          IF loc[t].session_id \in DOMAIN orphans
          THEN [orphans EXCEPT ![loc[t].session_id].messages =
                    AppendAssistantMessage(@, loc[t].response_text)]
          ELSE orphans, t)
    /\ sessions_lock' = Free
    /\ result' = [result EXCEPT ![t] =
          [kind |-> "response", response |-> loc[t].response_text,
           session_id |-> loc[t].session_id, model |-> loc[t].used_model]]
    /\ pc' = [pc EXCEPT ![t] = "idle"]
    /\ UNCHANGED <<chat_service, chat_service_lock, instances, models, tokenizers, models_lock, use_mock, now, nextId, minted,
                   chats, op, arg, loc, seen>>

\* ------------------------------------------------------------ get_history
\* The call of an operation `name` on a session id starts.
SessionCall(t, name) ==
    /\ pc[t] = "idle"
    /\ \E sid \in SessionIdArgs \ {NoSessionId} :
         arg' = [arg EXCEPT ![t] = [NoArg EXCEPT !.session_id = sid]]
    /\ op' = [op EXCEPT ![t] = name]
    /\ pc' = [pc EXCEPT ![t] = name \o "_acquire"]
    /\ loc' = [loc EXCEPT ![t] = NoLoc]
    /\ result' = [result EXCEPT ![t] = NoResult]
    /\ seen' = [seen EXCEPT ![t] = NoSeen]
    /\ UNCHANGED <<chat_service, chat_service_lock, instances, sessions, orphans, models, tokenizers, sessions_lock,
                   models_lock, use_mock, now, nextId, minted,
                   chats>>

\* An operation whose body is one `with self.sessions_lock:` enters it.
StoreAcquire(t, name) ==
    /\ pc[t] = name \o "_acquire"
    /\ sessions_lock = Free
    /\ sessions_lock' = t
    /\ pc' = [pc EXCEPT ![t] = name]
    /\ UNCHANGED <<chat_service, chat_service_lock, instances, sessions, orphans, models, tokenizers, models_lock,
                   use_mock, now, nextId, minted, chats, op, arg, loc, result, seen>>

SessionNotFound(session_id) ==
    [kind |-> "error", error |-> "Session not found", session_id |-> session_id]

GetHistoryCall(t) == SessionCall(t, "get_history")

GetHistoryAcquire(t) == StoreAcquire(t, "get_history")

\* A variant of GetHistoryBody that answers "Session not found" for a session
\* whose last access is older than session_timeout and removes it (for C35).
GetHistoryCheckingExpiry(sess, session_id, current_time) ==
    IF session_id \notin DOMAIN sess
    THEN <<sess, SessionNotFound(session_id)>>
    ELSE IF current_time - sess[session_id].last_access > session_timeout
    THEN <<Remove(sess, {session_id}), SessionNotFound(session_id)>>
    ELSE <<[sess EXCEPT ![session_id].last_access = current_time],
           [kind |-> "history", session_id |-> session_id,
            messages |-> sess[session_id].messages,
            system_prompt |-> sess[session_id].system_prompt,
            created_at |-> sess[session_id].created_at]>>

\* A variant of GetHistoryBody that refreshes the last access of every stored
\* session when the id is unknown (for C8).
GetHistoryTouchingAll(sess, session_id, current_time) ==
    IF session_id \notin DOMAIN sess
    THEN <<[s \in DOMAIN sess |-> [sess[s] EXCEPT !.last_access = current_time]],
           [kind |-> "error", error |-> "Session not found",
            session_id |-> session_id]>>
    ELSE <<[sess EXCEPT ![session_id].last_access = current_time],
           [kind |-> "history", session_id |-> session_id,
            messages |-> sess[session_id].messages,
            system_prompt |-> sess[session_id].system_prompt,
            created_at |-> sess[session_id].created_at]>>

\* get_history, lines 719-731: <<self.sessions afterwards, return value>>.
GetHistoryBody(sess, session_id, current_time) ==
    IF session_id \notin DOMAIN sess
    THEN <<sess, SessionNotFound(session_id)>>
    ELSE <<[sess EXCEPT ![session_id].last_access = current_time],
           [kind |-> "history", session_id |-> session_id,
            messages |-> sess[session_id].messages,
            system_prompt |-> sess[session_id].system_prompt,
            created_at |-> sess[session_id].created_at]>>

GetHistory(t) ==
    /\ pc[t] = "get_history"
    /\ LET r == GetHistoryBody(sessions, arg[t].session_id, now)
       IN /\ sessions' = r[1]
          /\ result' = [result EXCEPT ![t] = r[2]]
    /\ sessions_lock' = Free
    /\ pc' = [pc EXCEPT ![t] = "idle"]
    /\ UNCHANGED <<chat_service, chat_service_lock, instances, orphans, models, tokenizers, models_lock, use_mock, now,
                   nextId, minted, chats, op, arg, loc, seen>>

\* --------------------------------------------------------- delete_history
DeleteHistoryCall(t) == SessionCall(t, "delete_history")

DeleteHistoryAcquire(t) == StoreAcquire(t, "delete_history")

\* A variant of DeleteHistoryBody that empties the store (for C18).
DeleteHistoryClearingStore(sess, session_id) ==
    IF session_id \notin DOMAIN sess
    THEN <<sess, SessionNotFound(session_id)>>
    ELSE <<Remove(sess, DOMAIN sess),
           [kind |-> "deleted", success |-> TRUE, session_id |-> session_id]>>

\* delete_history, lines 744-748: <<self.sessions afterwards, return value>>.
DeleteHistoryBody(sess, session_id) ==
    IF session_id \notin DOMAIN sess
    THEN <<sess, SessionNotFound(session_id)>>
    ELSE <<Remove(sess, {session_id}),
           [kind |-> "deleted", success |-> TRUE, session_id |-> session_id]>>

DeleteHistory(t) ==
    /\ pc[t] = "delete_history"
    /\ LET r == DeleteHistoryBody(sessions, arg[t].session_id)
       IN /\ sessions' = r[1]
          /\ result' = [result EXCEPT ![t] = r[2]]
    /\ orphans' = Orphaned(sessions, sessions')
    /\ sessions_lock' = Free
    /\ pc' = [pc EXCEPT ![t] = "idle"]
    /\ UNCHANGED <<chat_service, chat_service_lock, instances, models, tokenizers, models_lock, use_mock, now, nextId, minted,
                   chats, op, arg, loc, seen>>

\* ---------------------------------------------------------- list_sessions
\* The call of an operation without arguments starts.
PlainCall(t, name) ==
    /\ pc[t] = "idle"
    /\ op' = [op EXCEPT ![t] = name]
    /\ pc' = [pc EXCEPT ![t] = name \o "_acquire"]
    /\ arg' = [arg EXCEPT ![t] = NoArg]
    /\ loc' = [loc EXCEPT ![t] = NoLoc]
    /\ result' = [result EXCEPT ![t] = NoResult]
    /\ seen' = [seen EXCEPT ![t] = NoSeen]
    /\ UNCHANGED <<chat_service, chat_service_lock, instances, sessions, orphans, models, tokenizers, sessions_lock,
                   models_lock, use_mock, now, nextId, minted,
                   chats>>

ListSessionsCall(t) == PlainCall(t, "list_sessions")

ListSessionsAcquire(t) == StoreAcquire(t, "list_sessions")

\* A variant of ListSessionsBody that counts turns, not messages (for C19).
ListSessionsCountingTurns(sess) ==
    LET info == {[session_id |-> sid,
                  message_count |-> Len(sess[sid].messages) \div 2,
                  created_at |-> sess[sid].created_at,
                  last_access |-> sess[sid].last_access] : sid \in DOMAIN sess}
    IN [kind |-> "sessions", sessions |-> info,
        total |-> Cardinality(DOMAIN sess)]

\* list_sessions, lines 758-772: the return value.  The list of summaries is
\* in the order of the ids, the order of the dict.
ListSessionsBody(sess) ==
    LET info == {[session_id |-> sid,
                  message_count |-> Len(sess[sid].messages),
                  created_at |-> sess[sid].created_at,
                  last_access |-> sess[sid].last_access] : sid \in DOMAIN sess}
    IN [kind |-> "sessions", sessions |-> info,
        total |-> Cardinality(DOMAIN sess)]

ListSessions(t) ==
    /\ pc[t] = "list_sessions"
    /\ result' = [result EXCEPT ![t] = ListSessionsBody(sessions)]
    /\ sessions_lock' = Free
    /\ pc' = [pc EXCEPT ![t] = "idle"]
    /\ UNCHANGED <<chat_service, chat_service_lock, instances, sessions, orphans, models, tokenizers, models_lock,
                   use_mock, now, nextId, minted, chats, op, arg, loc, seen>>

\* ------------------------------------------------------ get_loaded_models
GetLoadedModelsCall(t) == PlainCall(t, "get_loaded_models")

\* get_loaded_models, line 165: `with self.models_lock:` is entered.
GetLoadedModelsAcquire(t) ==
    /\ pc[t] = "get_loaded_models_acquire"
    /\ models_lock = Free
    /\ models_lock' = t
    /\ pc' = [pc EXCEPT ![t] = "get_loaded_models"]
    /\ UNCHANGED <<chat_service, chat_service_lock, instances, sessions, orphans, models, tokenizers, sessions_lock,
                   use_mock, now, nextId, minted, chats, op, arg, loc, result, seen>>

\* get_loaded_models, line 166.
GetLoadedModels(t) ==
    /\ pc[t] = "get_loaded_models"
    /\ result' = [result EXCEPT ![t] =
          [kind |-> "models", models |-> DOMAIN models]]
    /\ models_lock' = Free
    /\ pc' = [pc EXCEPT ![t] = "idle"]
    /\ UNCHANGED <<chat_service, chat_service_lock, instances, sessions, orphans, models, tokenizers, sessions_lock,
                   use_mock, now, nextId, minted, chats, op, arg, loc, seen>>

\* --------------------------------------------------------- specifications
\* chat up to the start of _generate_response.
ChatSessionStep(t, sids, options, limit) ==
    \/ ChatCall(t, sids, options, limit)
    \/ CleanupAcquire(t)
    \/ Cleanup(t)
    \/ SessionAcquire(t)
    \/ SessionStep(t)
    \/ GenerateStart(t)

\* _load_model, called by _generate_response for a model that is not loaded.
ChatLoadStep(t) ==
    \/ LoadAcquire(t)
    \/ LoadCheck(t)
    \/ LoadOk(t)
    \/ LoadFail(t)
    \/ InstallAcquire(t)
    \/ Install(t)
    \/ InstallTokenizerStep(t)

\* _generate_response from line 469, and the rest of chat.
ChatGenerateStep(t) ==
    \/ ReadAcquire(t)
    \/ ReadModel(t)
    \/ GenerateOk(t)
    \/ GenerateFail(t)
    \/ Process(t)
    \/ AppendAcquire(t)
    \/ AppendAssistant(t)

StoreStep(t) ==
    \/ GetHistoryCall(t)
    \/ GetHistoryAcquire(t)
    \/ GetHistory(t)
    \/ DeleteHistoryCall(t)
    \/ DeleteHistoryAcquire(t)
    \/ DeleteHistory(t)
    \/ ListSessionsCall(t)
    \/ ListSessionsAcquire(t)
    \/ ListSessions(t)

CacheStep(t) ==
    \/ GetLoadedModelsCall(t)
    \/ GetLoadedModelsAcquire(t)
    \/ GetLoadedModels(t)

\* The service as get_chat_service builds it (use_mock=False).
RealInit == Init /\ ~use_mock

\* The session store under one caller, whose calls run one after the other:
\* chat with the default model (which the constructor loaded, so that
\* _load_model is not called), get_history, delete_history, list_sessions.
SeqNext ==
    \/ ChatSessionStep("t1", SessionIdArgs, DefaultOptions, MaxChats)
    \/ ChatGenerateStep("t1")
    \/ StoreStep("t1")
    \/ Tick

SeqSpec == RealInit /\ [][SeqNext]_vars

\* One conversation: every chat call names the first session (the first
\* call names none) and every generation succeeds; nothing else is called.
TurnNext ==
    \/ ChatSessionStep("t1", IF nextId = 1 THEN {NoSessionId} ELSE {1},
                       DefaultOptions, MaxChats + max_history_messages)
    \/ ReadAcquire("t1")
    \/ ReadModel("t1")
    \/ GenerateOk("t1")
    \/ Process("t1")
    \/ AppendAcquire("t1")
    \/ AppendAssistant("t1")
    \/ Tick

TurnSpec == RealInit /\ [][TurnNext]_vars

\* The model cache under one caller: chat with the default model or with a
\* model that is loaded on first use, get_loaded_models.
CacheNext ==
    \/ ChatSessionStep("t1", SessionIdArgs, ModelOptions, MaxChats)
    \/ ChatLoadStep("t1")
    \/ ChatGenerateStep("t1")
    \/ CacheStep("t1")
    \/ Tick

CacheSpec == RealInit /\ [][CacheNext]_vars

\* Chat calls followed when two callers use the service at the same time.
ConcChats == 2

\* The steps of a caller thread t that only chats, with or without a model
\* name, in a new session or in one a chat has returned.
ChatStep(t) ==
    \/ ChatSessionStep(t, SessionIdArgs, ModelOptions, ConcChats)
    \/ ChatLoadStep(t)
    \/ ChatGenerateStep(t)

\* Two threads call the one service, which guards its state with
\* sessions_lock and models_lock for such callers; their steps interleave
\* in any order.
ConcNext == \E t \in Threads : ChatStep(t)

ConcSpec == RealInit /\ [][ConcNext]_vars

\* Chat calls followed when the callers use every operation of the service.
ServeChats == 2

\* chat(message, model_name="m2"): the first such call has to load the model.
ServeOptions == ChatOptions({FALSE}, {FALSE}, {None}, {"m2"}, {None})

\* All the steps a caller thread t can take: any operation of the service,
\* each chat in a session of its own.
ThreadStep(t) ==
    \/ ChatSessionStep(t, {NoSessionId}, ServeOptions, ServeChats)
    \/ ChatLoadStep(t)
    \/ ChatGenerateStep(t)
    \/ StoreStep(t)
    \/ CacheStep(t)

ServeNext == \E t \in Threads : ThreadStep(t)

ServeSpec == RealInit /\ [][ServeNext]_vars

\* The steps of a caller thread t that chats, lists the sessions (the one
\* `with self.sessions_lock:` that get_history and delete_history enter in
\* the same way) and lists the models.
LockStep(t) ==
    \/ ChatSessionStep(t, {NoSessionId}, ServeOptions, ServeChats)
    \/ ChatLoadStep(t)
    \/ ChatGenerateStep(t)
    \/ ListSessionsCall(t)
    \/ ListSessionsAcquire(t)
    \/ ListSessions(t)
    \/ CacheStep(t)

LockNext == \E t \in Threads : LockStep(t)

LockSpec == RealInit /\ [][LockNext]_vars

\* The steps in which thread t enters a `with` block: they wait for the lock.
AcquireStep(t) ==
    \/ CleanupAcquire(t)
    \/ SessionAcquire(t)
    \/ LoadAcquire(t)
    \/ InstallAcquire(t)
    \/ ReadAcquire(t)
    \/ AppendAcquire(t)
    \/ GetHistoryAcquire(t)
    \/ DeleteHistoryAcquire(t)
    \/ ListSessionsAcquire(t)
    \/ GetLoadedModelsAcquire(t)

\* The steps of thread t inside a call that wait for nothing: the thread is
\* running, or the external load or generation it waits for returns.
RunStep(t) ==
    \/ Cleanup(t)
    \/ SessionStep(t)
    \/ GenerateStart(t)
    \/ LoadCheck(t)
    \/ LoadOk(t)
    \/ LoadFail(t)
    \/ Install(t)
    \/ InstallTokenizerStep(t)
    \/ ReadModel(t)
    \/ GenerateOk(t)
    \/ GenerateFail(t)
    \/ Process(t)
    \/ AppendAssistant(t)
    \/ GetHistory(t)
    \/ DeleteHistory(t)
    \/ ListSessions(t)
    \/ GetLoadedModels(t)

\* The service under a scheduler that lets every runnable thread run and
\* hands a lock that is released again and again to each thread waiting for
\* it; every external load and generation returns.
LockFairSpec ==
    /\ LockSpec
    /\ \A t \in Threads : WF_vars(RunStep(t)) /\ SF_vars(AcquireStep(t))

\* chat with its optional arguments: a message that is an improvement
\* request or not, system_prompt absent, empty or given, model_name absent or
\* "m2", task_type absent or given.
AllOptions ==
    ChatOptions({FALSE}, {FALSE, TRUE}, {None, "", "custom instructions"}, {None, "m2"},
                {None, "image_prompt_generation"})

\* One caller whose chat calls use every optional argument, on new sessions
\* and on sessions of earlier calls.
OptionNext ==
    \/ ChatSessionStep("t1", SessionIdArgs, AllOptions, ConcChats)
    \/ ChatLoadStep("t1")
    \/ ChatGenerateStep("t1")

OptionSpec == RealInit /\ [][OptionNext]_vars

\* chat(message), chat(message, system_prompt=...), chat(message,
\* model_name="m2"), for a message that is an improvement request or not.
ReuseOptions ==
    ChatOptions({FALSE}, {FALSE, TRUE}, {None, "custom instructions"}, {None, "m2"}, {None})

\* One caller that chats on new sessions and on sessions of earlier calls,
\* with and without a system prompt and a model of its own, as time goes by.
ReuseNext ==
    \/ ChatSessionStep("t1", SessionIdArgs, ReuseOptions, ConcChats)
    \/ ChatLoadStep("t1")
    \/ ChatGenerateStep("t1")
    \/ Tick

ReuseSpec == RealInit /\ [][ReuseNext]_vars

\* ChatService(use_mock=True) after construction.
MockInit == Init /\ use_mock

\* The mock service under one caller: chat with and without a model name, on
\* new sessions and on sessions of earlier calls, and get_loaded_models.  In
\* mock mode _generate_response returns at line 463.
MockNext ==
    \/ ChatSessionStep("t1", SessionIdArgs, ModelOptions, MaxChats)
    \/ Process("t1")
    \/ AppendAcquire("t1")
    \/ AppendAssistant("t1")
    \/ CacheStep("t1")

MockSpec == MockInit /\ [][MockNext]_vars

\* A chat call of one thread is in progress while the other thread chats in
\* sessions of its own (its generations succeed) and deletes sessions, as
\* time goes by: the session of the first call can be deleted, expire or be
\* evicted before the call ends.
RemovalNext ==
    \/ ChatSessionStep("t1", {NoSessionId}, DefaultOptions, 1)
    \/ ChatGenerateStep("t1")
    \/ ChatSessionStep("t2", {NoSessionId}, DefaultOptions, MaxChats)
    \/ ReadAcquire("t2")
    \/ ReadModel("t2")
    \/ GenerateOk("t2")
    \/ Process("t2")
    \/ AppendAcquire("t2")
    \/ AppendAssistant("t2")
    \/ DeleteHistoryCall("t2")
    \/ DeleteHistoryAcquire("t2")
    \/ DeleteHistory("t2")
    \/ Tick

RemovalSpec == RealInit /\ [][RemovalNext]_vars

\* One thread reads histories while the other chats, on new sessions and on
\* sessions of earlier calls (its generations succeed), as time goes by.
HistoryNext ==
    \/ GetHistoryCall("t1")
    \/ GetHistoryAcquire("t1")
    \/ GetHistory("t1")
    \/ ChatSessionStep("t2", SessionIdArgs, DefaultOptions, ConcChats)
    \/ ReadAcquire("t2")
    \/ ReadModel("t2")
    \/ GenerateOk("t2")
    \/ Process("t2")
    \/ AppendAcquire("t2")
    \/ AppendAssistant("t2")
    \/ Tick

HistorySpec == RealInit /\ [][HistoryNext]_vars

\* ------------------------------------------------ main.py, get_chat_service
\* Calls of get_chat_service.
MaxCalls == 4

\* The module main has been imported (lines 36-37): no ChatService object
\* exists yet, the lock is free and no request is running.
MainInit ==
    /\ chat_service = NoService
    /\ chat_service_lock = Free
    /\ instances = 0
    /\ sessions = <<>>
    /\ orphans = <<>>
    /\ use_mock = FALSE
    /\ models = <<>>
    /\ tokenizers = <<>>
    /\ sessions_lock = Free
    /\ models_lock = Free
    /\ now = 0
    /\ nextId = 1
    /\ minted = {}
    /\ chats = 0
    /\ pc = [t \in Threads |-> "idle"]
    /\ op = [t \in Threads |-> "none"]
    /\ arg = [t \in Threads |-> NoArg]
    /\ loc = [t \in Threads |-> NoLoc]
    /\ result = [t \in Threads |-> NoResult]
    /\ seen = [t \in Threads |-> NoSeen]

\* A request handler calls get_chat_service (lines 190, 242, ...).
GetChatServiceCall(t) ==
    /\ pc[t] = "idle"
    /\ chats < MaxCalls
    /\ chats' = chats + 1
    /\ op' = [op EXCEPT ![t] = "get_chat_service"]
    /\ result' = [result EXCEPT ![t] = NoResult]
    /\ pc' = [pc EXCEPT ![t] = "first_check"]
    /\ UNCHANGED <<chat_service, chat_service_lock, instances, sessions, orphans,
                   models, tokenizers, sessions_lock, models_lock, use_mock, now,
                   nextId, minted, arg, loc, seen>>

\* get_chat_service, line 44: `if chat_service is None:`, read without the lock.
FirstCheck(t) ==
    /\ pc[t] = "first_check"
    /\ pc' = [pc EXCEPT ![t] =
          IF chat_service = NoService THEN "service_acquire" ELSE "return_service"]
    /\ UNCHANGED <<chat_service, chat_service_lock, instances, sessions, orphans,
                   models, tokenizers, sessions_lock, models_lock, use_mock, now,
                   nextId, minted, chats, op, arg, loc, result, seen>>

\* get_chat_service, line 45: `with chat_service_lock:` is entered.
ServiceAcquire(t) ==
    /\ pc[t] = "service_acquire"
    /\ chat_service_lock = Free
    /\ chat_service_lock' = t
    /\ pc' = [pc EXCEPT ![t] = "second_check"]
    /\ UNCHANGED <<chat_service, instances, sessions, orphans, models, tokenizers,
                   sessions_lock, models_lock, use_mock, now, nextId, minted, chats,
                   op, arg, loc, result, seen>>

\* A variant of SecondCheck that constructs whatever the global holds (for C30).
SecondCheckSkipped(t) ==
    /\ pc[t] = "second_check"
    /\ pc' = [pc EXCEPT ![t] = "construct"]
    /\ UNCHANGED <<chat_service, chat_service_lock, instances, sessions, orphans,
                   models, tokenizers, sessions_lock, models_lock, use_mock, now,
                   nextId, minted, chats, op, arg, loc, result, seen>>

\* get_chat_service, line 47: the second `if chat_service is None:`, read
\* with the lock held.
SecondCheck(t) ==
    /\ pc[t] = "second_check"
    /\ pc' = [pc EXCEPT ![t] =
          IF chat_service = NoService THEN "construct" ELSE "service_release"]
    /\ UNCHANGED <<chat_service, chat_service_lock, instances, sessions, orphans,
                   models, tokenizers, sessions_lock, models_lock, use_mock, now,
                   nextId, minted, chats, op, arg, loc, result, seen>>

\* get_chat_service, lines 49-52: ChatService(...) returns a new object, whose
\* constructor has loaded the default model, and the global is assigned.
ConstructService(t) ==
    /\ pc[t] = "construct"
    /\ instances' = instances + 1
    /\ chat_service' = instances + 1
    /\ models' = [m \in {DefaultModel} |-> "init"]
    /\ tokenizers' = [m \in {DefaultModel} |-> "init"]
    /\ pc' = [pc EXCEPT ![t] = "service_release"]
    /\ UNCHANGED <<chat_service_lock, sessions, orphans, sessions_lock, models_lock,
                   use_mock, now, nextId, minted, chats, op, arg, loc, result, seen>>

\* get_chat_service, line 52: the constructor raises (_load_model re-raises at
\* chat_service.py line 161); the `with` releases the lock, the global is
\* not assigned and the exception leaves get_chat_service.
ConstructFails(t) ==
    /\ pc[t] = "construct"
    /\ chat_service_lock' = Free
    /\ result' = [result EXCEPT ![t] = [kind |-> "raised"]]
    /\ pc' = [pc EXCEPT ![t] = "idle"]
    /\ UNCHANGED <<chat_service, instances, sessions, orphans, models, tokenizers,
                   sessions_lock, models_lock, use_mock, now, nextId, minted, chats,
                   op, arg, loc, seen>>

\* get_chat_service: the `with` block of line 45 is left.
ServiceRelease(t) ==
    /\ pc[t] = "service_release"
    /\ chat_service_lock' = Free
    /\ pc' = [pc EXCEPT ![t] = "return_service"]
    /\ UNCHANGED <<chat_service, instances, sessions, orphans, models, tokenizers,
                   sessions_lock, models_lock, use_mock, now, nextId, minted, chats,
                   op, arg, loc, result, seen>>

\* get_chat_service, line 55: `return chat_service` reads the global.
ReturnService(t) ==
    /\ pc[t] = "return_service"
    /\ result' = [result EXCEPT ![t] = [kind |-> "service", service |-> chat_service]]
    /\ pc' = [pc EXCEPT ![t] = "idle"]
    /\ UNCHANGED <<chat_service, chat_service_lock, instances, sessions, orphans,
                   models, tokenizers, sessions_lock, models_lock, use_mock, now,
                   nextId, minted, chats, op, arg, loc, seen>>

GetChatService(t) ==
    \/ GetChatServiceCall(t)
    \/ FirstCheck(t)
    \/ ServiceAcquire(t)
    \/ SecondCheck(t)
    \/ ConstructService(t)
    \/ ConstructFails(t)
    \/ ServiceRelease(t)
    \/ ReturnService(t)

\* Request handlers on two threads call get_chat_service.
MainNext == \E t \in Threads : GetChatService(t)

MainSpec == MainInit /\ [][MainNext]_vars

\* ------------------------------------------------------------------ texts
\* A text is a sequence of tokens.  A token stands for one character or for
\* one of the phrases the code looks for, taken as a whole:
\*   "j"  a hiragana letter          "jj"  a run of JRunLen hiragana letters
\*   "a"  a Latin letter             "sp"  a space
\*   "sep"  the separator '、'       "comma"  ','        "stop"  '。'
\*   "mirror"  大きな鏡   "kagami"  鏡   "quality"  高品質   "detail"  超詳細
\*   "mirror_fix"  （鏡に映る人物の手足が正確で自然な姿勢）
\*   "mirror_pose"  鏡に正確に映る人物の姿勢      "detail_fix"  超詳細な描写
\*   "prompt_label"  改善したいプロンプト：        "problem_label"  問題：
\* The letters "j" and "a" are letters that occur in none of the phrases.

\* Longest prompt given to improve_prompt.
MaxPrompt == 3

Max(S) == CHOOSE x \in S : \A y \in S : y <= x

Lowest(S) == CHOOSE x \in S : \A y \in S : x <= y

\* All texts of at most n tokens of the set `tokens`.
Texts(tokens, n) == UNION {[1 .. k -> tokens] : k \in 0 .. n}

\* tok in text, for a token that is a whole phrase or character.
Contains(text, tok) == \E i \in 1 .. Len(text) : text[i] = tok

ContainsAny(text, toks) == \E i \in 1 .. Len(text) : text[i] \in toks

\* text.strip(chars) and its one-sided forms, for a set of characters.
StripSet(text, chars) ==
    LET keep == {i \in 1 .. Len(text) : text[i] \notin chars}
    IN IF keep = {} THEN <<>> ELSE SubSeq(text, Lowest(keep), Max(keep))

RStripSet(text, chars) ==
    LET keep == {i \in 1 .. Len(text) : text[i] \notin chars}
    IN IF keep = {} THEN <<>> ELSE SubSeq(text, 1, Max(keep))

LStripSet(text, chars) ==
    LET keep == {i \in 1 .. Len(text) : text[i] \notin chars}
    IN IF keep = {} THEN <<>> ELSE SubSeq(text, Lowest(keep), Len(text))

\* Whitespace: what str.strip() removes and what \s matches.
Whitespace == {"sp", "nl"}

\* text.strip()
Strip(text) == StripSet(text, Whitespace)

\* text.split(tok): the list of the pieces between the occurrences of tok.
RECURSIVE Split(_, _)
Split(text, tok) ==
    LET at == {i \in 1 .. Len(text) : text[i] = tok}
    IN IF at = {} THEN <<text>>
       ELSE <<SubSeq(text, 1, Lowest(at) - 1)>>
                \o Split(SubSeq(text, Lowest(at) + 1, Len(text)), tok)

\* tok.join(parts)
RECURSIVE Join(_, _)
Join(parts, tok) ==
    IF parts = <<>> THEN <<>>
    ELSE IF Len(parts) = 1 THEN parts[1]
    ELSE parts[1] \o <<tok>> \o Join(Tail(parts), tok)

\* The tokens that contain the character 鏡, and the phrase 超詳細.
WithKagami == {"kagami", "mirror", "mirror_fix", "mirror_pose"}

WithDetail == {"detail", "detail_fix"}

\* re.sub(r"大きな鏡", "大きな鏡（...）", prompt), line 41.
RECURSIVE FixMirrors(_)
FixMirrors(text) ==
    IF text = <<>> THEN <<>>
    ELSE IF Head(text) = "mirror"
    THEN <<"mirror", "mirror_fix">> \o FixMirrors(Tail(text))
    ELSE <<Head(text)>> \o FixMirrors(Tail(text))

\* improve_prompt, lines 38-43: the prompt after the problem is resolved.
ResolveProblem(prompt, problem) ==
    IF problem # <<>> /\ ContainsAny(problem, WithKagami)
    THEN IF Contains(FixMirrors(prompt), "mirror") THEN FixMirrors(prompt)
         ELSE FixMirrors(prompt) \o <<"sep", "mirror_pose">>
    ELSE prompt

\* A variant of PromptParts that keeps the empty pieces (for C17).
AllParts(prompt) ==
    [i \in 1 .. Len(Split(prompt, "sep")) |-> Strip(Split(prompt, "sep")[i])]

\* improve_prompt, line 46: [p.strip() for p in prompt.split("、") if p.strip()].
PromptParts(prompt) ==
    LET pieces == Split(prompt, "sep")
        stripped == [i \in 1 .. Len(pieces) |-> Strip(pieces[i])]
    IN SelectSeq(stripped, LAMBDA part : part # <<>>)

\* improve_prompt, lines 49-59: the parts, with 超詳細な描写 added once after
\* the first part that has 高品質 when the prompt has no 超詳細.
RECURSIVE ImprovedParts(_, _, _)
ImprovedParts(parts, prompt, added) ==
    IF parts = <<>> THEN <<>>
    ELSE IF Contains(Head(parts), "quality")
            /\ ~ContainsAny(prompt, WithDetail) /\ ~added
    THEN <<Head(parts), <<"detail_fix">>>>
             \o ImprovedParts(Tail(parts), prompt, TRUE)
    ELSE <<Head(parts)>> \o ImprovedParts(Tail(parts), prompt, added)

\* PromptImprovementEngine.improve_prompt
ImprovePrompt(original_prompt, problem) ==
    LET prompt == ResolveProblem(
                      RStripSet(Strip(original_prompt), {"sep", "comma"}),
                      problem)
        improved == Join(ImprovedParts(PromptParts(prompt), prompt, FALSE),
                         "sep")
    IN SelectSeq(improved, LAMBDA tok : tok \notin Whitespace)

\* The prompts and problems improve_prompt is applied to.
PromptTokens == {"j", "sp", "sep", "comma", "mirror", "quality", "detail"}

Problems == {<<>>, <<"j">>, <<"kagami">>}

\* The service after ChatService.__init__ (real models), no call running;
\* the arguments and locals of the calls are given by the specification.
Constructed ==
    /\ chat_service = 1
    /\ chat_service_lock = Free
    /\ instances = 1
    /\ sessions = <<>>
    /\ orphans = <<>>
    /\ use_mock = FALSE
    /\ models = [m \in {DefaultModel} |-> "init"]
    /\ tokenizers = models
    /\ sessions_lock = Free
    /\ models_lock = Free
    /\ now = 0
    /\ nextId = 1
    /\ minted = {}
    /\ chats = 0
    /\ pc = [t \in Threads |-> "idle"]
    /\ op = [t \in Threads |-> "none"]
    /\ result = [t \in Threads |-> NoResult]
    /\ seen = [t \in Threads |-> NoSeen]

\* improve_prompt is about to be applied to a prompt and a problem.
ImproveInit ==
    /\ Constructed
    /\ loc = [t \in Threads |-> NoLoc]
    /\ \E original_prompt \in Texts(PromptTokens, MaxPrompt), problem \in Problems :
          arg = [t \in Threads |-> [original_prompt |-> original_prompt, problem |-> problem]]

\* A call of PromptImprovementEngine.improve_prompt by thread t; `kind`
\* tells the first call from a repeated one.
ImprovePromptCall(t) ==
    /\ pc[t] = "idle"
    /\ result[t].kind \in {"none", "improved"}
    /\ result' = [result EXCEPT ![t] =
                    [kind |-> IF result[t].kind = "none" THEN "improved" ELSE "repeated",
                     text |-> ImprovePrompt(arg[t].original_prompt, arg[t].problem),
                     first |-> IF result[t].kind = "none"
                               THEN ImprovePrompt(arg[t].original_prompt, arg[t].problem)
                               ELSE result[t].text]]
    /\ UNCHANGED <<chat_service, chat_service_lock, instances, sessions, orphans, models, tokenizers, sessions_lock, models_lock,
                   use_mock, now, nextId, minted, chats, pc, op, arg, loc, seen>>

ImproveNext == Tick \/ \E t \in Threads : ImprovePromptCall(t)

ImproveSpec == ImproveInit /\ [][ImproveNext]_vars

\* ------------------------------------------------- output quality control
\* More tokens, for the texts of the backend and of the messages:
\*   "kk"  a run of KRunLen kanji     "nl"  a newline      "colon"  '：'
\*   "kaizen"  改善したい    "prompt_word"  プロンプト    "mondai"  問題
\*   "kudasai"  ください     "dance"  ダンス       "bright_light"  明るい照明
\*   "im_start"  <|im_start|>     "chuui"  注意        "masu"  ます
\*   "professional"  professional "purofesshonaru"  プロフェッショナル
\*   "sorry"  申し訳ありませんが  "no_response"  応答を生成できませんでした
\*   "no_prompt"  申し訳ありませんが、プロンプトが確認できませんでした。
\*   "no_description"  申し訳ありませんが、説明が確認できませんでした。
\*   "default_prompt"  画像生成のプロンプト
\*   "mirror_words"  "mirror_fix" without its brackets
\* The kanji of "kk" occur in none of the phrases.

\* Number of letters of the runs "jj" and "kk".
JRunLen == 12

KRunLen == 12

\* A row of TokenTable: the number of characters of a token, how many of
\* them are kanji (一-鿿), kana (぀-ヿ) and Latin letters, the
\* classes of its characters in order ("L" a run of Latin letters, "W" a run
\* of other \w characters, "B" characters that are not \w), and what
\* re.sub(r"[^ぁ-ん ァ-ヴー一-龥々〆〤ゝゞ、。・ー，、]", "", token) leaves.
Row(len, kanji, kana, latin, class, japanese) ==
    [len |-> len, kanji |-> kanji, kana |-> kana, latin |-> latin, class |-> class,
     japanese |-> japanese]

TokenTable ==
    [j |-> Row(1, 0, 1, 0, <<"W">>, <<"j">>),
     jj |-> Row(JRunLen, 0, JRunLen, 0, <<"W">>, <<"jj">>),
     kk |-> Row(KRunLen, KRunLen, 0, 0, <<"W">>, <<"kk">>),
     a |-> Row(1, 0, 0, 1, <<"L">>, <<>>),
     sp |-> Row(1, 0, 0, 0, <<"B">>, <<"sp">>),
     nl |-> Row(1, 0, 0, 0, <<"B">>, <<>>),
     sep |-> Row(1, 0, 0, 0, <<"B">>, <<"sep">>),
     comma |-> Row(1, 0, 0, 0, <<"B">>, <<>>),
     stop |-> Row(1, 0, 0, 0, <<"B">>, <<"stop">>),
     colon |-> Row(1, 0, 0, 0, <<"B">>, <<>>),
     mirror |-> Row(4, 2, 2, 0, <<"W">>, <<"mirror">>),
     kagami |-> Row(1, 1, 0, 0, <<"W">>, <<"kagami">>),
     quality |-> Row(3, 3, 0, 0, <<"W">>, <<"quality">>),
     detail |-> Row(3, 3, 0, 0, <<"W">>, <<"detail">>),
     mirror_fix |-> Row(20, 12, 6, 0, <<"B", "W", "B">>, <<"mirror_words">>),
     mirror_words |-> Row(18, 12, 6, 0, <<"W">>, <<"mirror_words">>),
     mirror_pose |-> Row(12, 8, 4, 0, <<"W">>, <<"mirror_pose">>),
     detail_fix |-> Row(6, 5, 1, 0, <<"W">>, <<"detail_fix">>),
     kaizen |-> Row(5, 2, 3, 0, <<"W">>, <<"kaizen">>),
     prompt_word |-> Row(5, 0, 5, 0, <<"W">>, <<"prompt_word">>),
     mondai |-> Row(2, 2, 0, 0, <<"W">>, <<"mondai">>),
     kudasai |-> Row(4, 0, 4, 0, <<"W">>, <<"kudasai">>),
     dance |-> Row(3, 0, 3, 0, <<"W">>, <<"dance">>),
     bright_light |-> Row(5, 3, 2, 0, <<"W">>, <<"bright_light">>),
     im_start |-> Row(12, 0, 0, 7, <<"B", "W", "B">>, <<>>),
     chuui |-> Row(2, 2, 0, 0, <<"W">>, <<"chuui">>),
     masu |-> Row(2, 0, 2, 0, <<"W">>, <<"masu">>),
     professional |-> Row(12, 0, 0, 12, <<"L">>, <<>>),
     purofesshonaru |-> Row(9, 0, 9, 0, <<"W">>, <<"purofesshonaru">>),
     sorry |-> Row(9, 2, 7, 0, <<"W">>, <<"sorry">>),
     no_response |-> Row(13, 4, 9, 0, <<"W">>, <<"no_response">>),
     no_prompt |-> Row(27, 4, 21, 0, <<"W", "B", "W", "B">>, <<"no_prompt">>),
     no_description |-> Row(24, 6, 16, 0, <<"W", "B", "W", "B">>, <<"no_description">>),
     default_prompt |-> Row(10, 4, 6, 0, <<"W">>, <<"default_prompt">>)]

\* The sum of a numeric column of TokenTable over a text.
RECURSIVE Measure(_, _)
Measure(text, column) ==
    IF text = <<>> THEN 0
    ELSE TokenTable[Head(text)][column] + Measure(Tail(text), column)

\* len(text)
TextLen(text) == Measure(text, "len")

\* The concatenation of a sequence-valued column of TokenTable over a text.
RECURSIVE Spell(_, _)
Spell(text, column) ==
    IF text = <<>> THEN <<>>
    ELSE TokenTable[Head(text)][column] \o Spell(Tail(text), column)

\* The number of maximal runs of \w characters that are Latin letters only,
\* in a sequence of character classes.
RECURSIVE LatinRuns(_, _, _)
LatinRuns(classes, inrun, latin) ==
    IF classes = <<>> THEN (IF inrun /\ latin THEN 1 ELSE 0)
    ELSE IF Head(classes) = "B"
    THEN (IF inrun /\ latin THEN 1 ELSE 0) + LatinRuns(Tail(classes), FALSE, TRUE)
    ELSE LatinRuns(Tail(classes), TRUE, latin /\ Head(classes) = "L")

\* len(re.findall(r"\b[a-zA-Z]+\b", text))
EnglishWords(text) == LatinRuns(Spell(text, "class"), FALSE, TRUE)

\* The least index from `from` on at which `pattern` occurs in text, or 0.
Find(text, pattern, from) ==
    LET at == {i \in from .. Len(text) - Len(pattern) + 1 :
                  SubSeq(text, i, i + Len(pattern) - 1) = pattern}
    IN IF at = {} THEN 0 ELSE Lowest(at)

\* The section labels of a prompt improvement message.
PromptLabel == <<"kaizen", "prompt_word", "colon">>

ProblemLabel == <<"mondai", "colon">>

\* re.search(label + r"(.+?)(?:" + stop + "|$)", message, re.DOTALL): the
\* group, stripped; the group has one character at least, so that the label
\* is followed by something and `stop` is looked for after that character.
\* Without `stop` the group goes to the end of the message.
Section(message, label, stop) ==
    LET at == Find(message, label, 1)
        start == at + Len(label)
        end == IF stop = <<>> THEN 0 ELSE Find(message, stop, start + 1)
    IN IF at = 0 \/ start > Len(message) THEN <<>>
       ELSE IF end = 0 THEN Strip(SubSeq(message, start, Len(message)))
       ELSE Strip(SubSeq(message, start, end - 1))

\* PromptImprovementEngine.extract_original_prompt: <<prompt, problem>>.
ExtractOriginalPrompt(user_message) ==
    <<Section(user_message, PromptLabel, ProblemLabel), Section(user_message, ProblemLabel, <<>>)>>

\* The tokens that contain one of the bad_markers of line 163 and of line 242.
ImprovementBadMarkers == {"chuui", "masu", "detail", "detail_fix", "no_description"}

GenerationBadMarkers == {"chuui", "masu", "no_description"}

\* A variant of ProcessPromptImprovementRequest that validates the response
\* of the backend first and looks for the prompt section only when it needs
\* the rule-based improvement (for C36).
ImprovementRequestResponseFirst(user_message, llm_response) ==
    LET original_prompt == ExtractOriginalPrompt(user_message)[1]
        problem == ExtractOriginalPrompt(user_message)[2]
        cleaned == Strip(llm_response)
    IN IF /\ llm_response # <<>>
          /\ EnglishWords(cleaned) < 2
          /\ Measure(cleaned, "kanji") < 10
          /\ TextLen(cleaned) > 10 /\ TextLen(cleaned) < 500
          /\ ~ContainsAny(cleaned, ImprovementBadMarkers)
       THEN cleaned
       ELSE IF original_prompt = <<>> THEN <<"no_prompt">>
       ELSE ImprovePrompt(original_prompt, problem)

\* process_prompt_improvement_request
ProcessPromptImprovementRequest(user_message, llm_response) ==
    LET original_prompt == ExtractOriginalPrompt(user_message)[1]
        problem == ExtractOriginalPrompt(user_message)[2]
        cleaned == Strip(llm_response)
    IN IF original_prompt = <<>> THEN <<"no_prompt">>
       ELSE IF llm_response # <<>> /\ EnglishWords(cleaned) >= 2
       THEN ImprovePrompt(original_prompt, problem)
       ELSE IF llm_response # <<>> /\ Measure(cleaned, "kanji") >= 10
       THEN ImprovePrompt(original_prompt, problem)
       ELSE IF /\ llm_response # <<>>
               /\ TextLen(cleaned) > 10 /\ TextLen(cleaned) < 500
               /\ ~ContainsAny(cleaned, ImprovementBadMarkers)
       THEN cleaned
       ELSE ImprovePrompt(original_prompt, problem)

\* re.sub(r"[^ぁ-ん ァ-ヴー一-龥々〆〤ゝゞ、。・ー，、]", "", prompt)
JapaneseOnly(text) == Spell(text, "japanese")

\* generate_prompt, lines 84-94: a description of more than 15 characters.
LongPrompt(prompt) ==
    LET japanese == RStripSet(Strip(JapaneseOnly(prompt)), {"stop", "sep", "sp"})
    IN IF ~Contains(japanese, "quality") /\ Contains(japanese, "dance")
       THEN japanese \o <<"sep", "quality", "sep", "bright_light">>
       ELSE japanese

\* generate_prompt, lines 97-106: the details added to a short description.
AddDetails(description, prompt) ==
    IF Contains(description, "dance")
    THEN (IF ~Contains(prompt, "quality") THEN <<<<"quality">>>> ELSE <<>>)
             \o (IF ~Contains(prompt, "bright_light") THEN <<<<"bright_light">>>> ELSE <<>>)
    ELSE <<>>

\* re.sub(r",\s*", "、", prompt), line 111.
RECURSIVE UnifyCommas(_)
UnifyCommas(text) ==
    IF text = <<>> THEN <<>>
    ELSE IF Head(text) = "comma"
    THEN <<"sep">> \o UnifyCommas(LStripSet(Tail(text), Whitespace))
    ELSE <<Head(text)>> \o UnifyCommas(Tail(text))

\* generate_prompt, lines 97-114: a description of at most 15 characters.
ShortPrompt(description, prompt) ==
    LET detailed == IF AddDetails(description, prompt) # <<>>
                    THEN prompt \o <<"sep">> \o Join(AddDetails(description, prompt), "comma")
                    ELSE prompt
    IN UnifyCommas(RStripSet(JapaneseOnly(detailed), Whitespace \cup {"sep"}))

\* PromptImprovementEngine.generate_prompt
GeneratePrompt(description) ==
    LET prompt == Strip(LStripSet(Strip(description), {"stop", "sep"}))
    IN IF Strip(description) = <<>> \/ TextLen(Strip(description)) < 2
       THEN <<"default_prompt">>
       ELSE IF TextLen(prompt) > 15 THEN LongPrompt(prompt)
       ELSE ShortPrompt(description, prompt)

\* re.sub(r"プロンプト.*?ください", "", message), line 200: from each
\* プロンプト to the nearest ください after it on the same line.  The other
\* instruction_patterns need 画像生成, 返してください, 日本語, １行 or 1行,
\* which no token contains.
RECURSIVE RemoveInstructions(_)
RemoveInstructions(text) ==
    IF text = <<>> THEN <<>>
    ELSE LET ends == {k \in 2 .. Len(text) :
                         /\ text[k] = "kudasai"
                         /\ \A i \in 1 .. k : text[i] # "nl"}
         IN IF Head(text) = "prompt_word" /\ ends # {}
            THEN RemoveInstructions(SubSeq(text, Lowest(ends) + 1, Len(text)))
            ELSE <<Head(text)>> \o RemoveInstructions(Tail(text))

\* process_prompt_generation_request, lines 194-216: the description part
\* of the message (no token has the '.' of line 212).
MessageClean(user_message) ==
    LET cleaned == Strip(LStripSet(Strip(RemoveInstructions(user_message)), {"stop", "sep"}))
    IN IF cleaned = <<>> THEN user_message ELSE cleaned

\* process_prompt_generation_request
ProcessPromptGenerationRequest(user_message, llm_response) ==
    LET cleaned == Strip(llm_response)
        japanese_chars == Measure(cleaned, "kanji") + Measure(cleaned, "kana")
    IN IF user_message = <<>> THEN <<"no_description">>
       ELSE IF llm_response # <<>> /\ EnglishWords(cleaned) >= 2
       THEN GeneratePrompt(MessageClean(user_message))
       ELSE IF llm_response # <<>> /\ Measure(cleaned, "latin") >= 3 /\ japanese_chars > 0
       THEN GeneratePrompt(MessageClean(user_message))
       ELSE IF /\ llm_response # <<>>
               /\ japanese_chars > 5 /\ TextLen(cleaned) > 5 /\ TextLen(cleaned) < 300
               /\ ~ContainsAny(cleaned, GenerationBadMarkers)
       THEN cleaned
       ELSE GeneratePrompt(MessageClean(user_message))

\* _process_task_specific_response
ProcessTaskSpecificResponse(response_text, task_type, message) ==
    IF task_type = "image_prompt_improvement"
    THEN ProcessPromptImprovementRequest(message, response_text)
    ELSE IF task_type = "image_prompt_generation"
    THEN ProcessPromptGenerationRequest(message, response_text)
    ELSE response_text

\* The format markers _generate_response removes (lines 504-516); the token
\* "im_start" stands for any of them.
FormatMarkers == {"im_start"}

\* _generate_response, lines 503-518: the markers are removed, then strip().
RemoveMarkers(generated_text) ==
    Strip(SelectSeq(generated_text, LAMBDA tok : tok \notin FormatMarkers))

\* _generate_response, lines 521-524: the text before the first newline that
\* is followed by a marker.
CutAtDelimiter(generated_text) ==
    LET at == {i \in 1 .. Len(generated_text) - 1 :
                  generated_text[i] = "nl" /\ generated_text[i + 1] \in FormatMarkers}
    IN IF at = {} THEN generated_text
       ELSE Strip(SubSeq(generated_text, 1, Lowest(at) - 1))

\* 申し訳ありませんが、応答を生成できませんでした。 (line 528)
NoResponseText == <<"sorry", "sep", "no_response", "stop">>

\* _generate_response, lines 527-528.
EmptyFallback(generated_text) ==
    IF generated_text = <<>> THEN NoResponseText ELSE generated_text

ImageTasks == {"image_prompt_improvement", "image_prompt_generation"}

\* The tokens that contain one of the explanation_markers of lines 229-257.
ExplanationMarkers == {"chuui"}

\* _post_process_response, lines 260-272: the sentences that are kept.
KeptSentences(text) ==
    LET pieces == Split(text, "stop")
        stripped == [i \in 1 .. Len(pieces) |-> Strip(pieces[i])]
    IN SelectSeq(stripped, LAMBDA sentence : sentence # <<>> /\ ~ContainsAny(sentence, ExplanationMarkers))

\* _post_process_response, lines 276-280: the first sentence, with the
\* second when the first has fewer than 50 characters.
FirstSentences(result_sentences) ==
    IF Len(result_sentences) > 1 /\ TextLen(result_sentences[1]) < 50
    THEN result_sentences[1] \o <<"stop">> \o result_sentences[2]
    ELSE IF result_sentences[1][Len(result_sentences[1])] # "stop"
    THEN result_sentences[1] \o <<"stop">>
    ELSE result_sentences[1]

\* _post_process_response, lines 283-310: the words of the table are
\* replaced; "professional" is the word of the table that texts have here.
ReplaceWords(text) ==
    [i \in 1 .. Len(text) |-> IF text[i] = "professional" THEN "purofesshonaru" ELSE text[i]]

\* _post_process_response
PostProcessResponse(response, task_type) ==
    IF task_type \in ImageTasks /\ KeptSentences(Strip(response)) # <<>>
    THEN Strip(ReplaceWords(FirstSentences(KeptSentences(Strip(response)))))
    ELSE Strip(response)

\* _generate_response, lines 503-531: the decoded text of the backend is
\* cleaned and post-processed.
CleanResponse(generated_text, task_type) ==
    PostProcessResponse(EmptyFallback(CutAtDelimiter(RemoveMarkers(generated_text))), task_type)

\* Longest decoded text of the backend.
MaxRaw == 3

\* The texts the backend can return.
RawTokens == {"jj", "kk", "a", "sp", "stop", "im_start", "chuui", "masu", "professional"}

RawTexts == Texts(RawTokens, MaxRaw)

\* The messages of the chat calls: prompt improvement messages (a prompt of
\* separators only; a prompt and a problem; a prompt alone), messages without
\* a prompt section (Japanese, Latin, empty), and descriptions with and
\* without an instruction.
Messages ==
    {PromptLabel \o <<"sep">>,
     PromptLabel \o <<"j", "sep", "mirror">> \o ProblemLabel \o <<"kagami">>,
     PromptLabel \o <<"quality">>,
     <<"j", "j">>,
     <<"a", "a", "sp", "a">>,
     <<>>,
     <<"dance", "prompt_word", "kudasai">>,
     <<"jj", "dance", "j">>}

\* chat(message, task_type=task_type), lines 671-675, for a message given as
\* a text; one call is followed.
TextChatCall(t) ==
    /\ pc[t] = "idle"
    /\ chats = 0
    /\ \E message \in Messages, task_type \in TaskTypes :
         /\ arg' = [arg EXCEPT ![t] = [NoArg EXCEPT !.message = message, !.task_type = task_type]]
         /\ loc' = [loc EXCEPT ![t] = [NoLoc EXCEPT !.model_name = DefaultModel, !.task_type = task_type]]
    /\ chats' = chats + 1
    /\ op' = [op EXCEPT ![t] = "chat"]
    /\ pc' = [pc EXCEPT ![t] = "cleanup_acquire"]
    /\ result' = [result EXCEPT ![t] = NoResult]
    /\ seen' = [seen EXCEPT ![t] = NoSeen]
    /\ UNCHANGED <<chat_service, chat_service_lock, instances, sessions, orphans, models, tokenizers, sessions_lock,
                   models_lock, use_mock, now, nextId, minted>>

\* _generate_response, lines 475-535: the backend returns a text (decoded),
\* which is cleaned and post-processed for the task type read at line 686.
GenerateFrom(t, texts) ==
    /\ pc[t] = "generating"
    /\ \E decoded \in texts :
          loc' = [loc EXCEPT ![t] =
                    [decoded |-> decoded]
                        @@ [@ EXCEPT !.generated_text = CleanResponse(decoded, loc[t].generate_task_type)]]
    /\ pc' = [pc EXCEPT ![t] = "process"]
    /\ UNCHANGED <<chat_service, chat_service_lock, instances, sessions, orphans, models, tokenizers, sessions_lock,
                   models_lock, use_mock, now, nextId, minted, chats, op, arg, result,
                   seen>>

\* _generate_response with a backend that returns a text of RawTexts.
GenerateText(t) == GenerateFrom(t, RawTexts)

\* A variant of ProcessText that takes the task type of the call, the local
\* task_type of chat, instead of the one of the session (for C34).
ProcessTextByCallType(t) ==
    /\ pc[t] = "process"
    /\ loc' = [loc EXCEPT
          ![t].process_task_type = loc[t].task_type,
          ![t].response_text =
              ProcessTaskSpecificResponse(loc[t].generated_text, loc[t].task_type, arg[t].message)]
    /\ pc' = [pc EXCEPT ![t] = "append_acquire"]
    /\ UNCHANGED <<chat_service, chat_service_lock, instances, sessions, orphans,
                   models, tokenizers, sessions_lock, models_lock, use_mock, now,
                   nextId, minted, chats, op, arg, result, seen>>

\* chat, line 687: session.get("task_type") is read again and
\* _process_task_specific_response gives the response text.
ProcessText(t) ==
    /\ pc[t] = "process"
    /\ loc' = [loc EXCEPT
          ![t].process_task_type = SessionOf(t).task_type,
          ![t].response_text =
              ProcessTaskSpecificResponse(loc[t].generated_text, SessionOf(t).task_type, arg[t].message)]
    /\ pc' = [pc EXCEPT ![t] = "append_acquire"]
    /\ UNCHANGED <<chat_service, chat_service_lock, instances, sessions, orphans, models, tokenizers, sessions_lock,
                   models_lock, use_mock, now, nextId, minted, chats, op, arg, result,
                   seen>>

\* One chat call with the default model, text by text.
QualityStep(t) ==
    \/ TextChatCall(t)
    \/ CleanupAcquire(t)
    \/ Cleanup(t)
    \/ SessionAcquire(t)
    \/ SessionStep(t)
    \/ GenerateStart(t)
    \/ ReadAcquire(t)
    \/ ReadModel(t)
    \/ GenerateText(t)
    \/ ProcessText(t)
    \/ AppendAcquire(t)
    \/ AppendAssistant(t)

QualityNext == \E t \in Threads : QualityStep(t)

QualitySpec == RealInit /\ [][QualityNext]_vars

\* Longest decoded text of a backend that goes on with the next turn.
MaxDecoded == 4

\* The texts of a backend that writes letters, spaces, new lines and format
\* markers.
TurnTexts == Texts({"j", "sp", "nl", "im_start"}, MaxDecoded)

\* _generate_response with a backend that returns a text of TurnTexts.
GenerateTurns(t) == GenerateFrom(t, TurnTexts)

\* One chat call with the default model, for a backend that can go on with
\* the next turn of the conversation.
DelimiterStep(t) ==
    \/ TextChatCall(t)
    \/ CleanupAcquire(t)
    \/ Cleanup(t)
    \/ SessionAcquire(t)
    \/ SessionStep(t)
    \/ GenerateStart(t)
    \/ ReadAcquire(t)
    \/ ReadModel(t)
    \/ GenerateTurns(t)
    \/ ProcessText(t)
    \/ AppendAcquire(t)
    \/ AppendAssistant(t)

DelimiterNext == \E t \in Threads : DelimiterStep(t)

DelimiterSpec == RealInit /\ [][DelimiterNext]_vars

\* ------------------------------------------------------------- properties
\* The chat call of thread t has returned.
ChatReturned(t) == pc[t] = "idle" /\ op[t] = "chat"

\* The chat call of thread t has returned a response.
ChatSucceeded(t) == ChatReturned(t) /\ result[t].kind = "response"

\* The chat call of thread t has returned {"error": ...}.
ChatFailed(t) == ChatReturned(t) /\ result[t].kind = "error"

\* The messages end with the user message and the answer of call number n.
EndsWithTurn(messages, n) ==
    /\ Len(messages) >= 2
    /\ messages[Len(messages) - 1] = [role |-> "user", content |-> n]
    /\ messages[Len(messages)] = [role |-> "assistant", content |-> n]

Min(a, b) == IF a <= b THEN a ELSE b

\* C1: a chat call that names a session which is in the store and is not
\* expired when the call looks at the store returns the same session id,
\* has appended its user message and its assistant message to that session,
\* and has created no session.
C1_ChatReusesLiveSession ==
    \A t \in Threads :
        (ChatSucceeded(t) /\ seen[t].named_present /\ ~seen[t].named_expired)
        => /\ result[t].session_id = arg[t].session_id
           /\ ~seen[t].created
           /\ arg[t].session_id \in DOMAIN sessions
           /\ EndsWithTurn(sessions[arg[t].session_id].messages,
                           arg[t].message)

\* The session ids that a list_sessions call made now would return.
ListedIds == {s.session_id : s \in ListSessionsBody(sessions).sessions}

\* C2: a chat call whose session id is absent or not in the store when the
\* call looks for it adds exactly one session to the store, under an id that
\* no session of this store has had before, with the call's user message as
\* its only message; the id the call returns is that id, and it is among the
\* ids list_sessions returns.
C2_ChatCreatesFreshSession ==
    [][\A t \in Threads :
          /\ (pc[t] = "session" /\ pc'[t] = "generate"
                  /\ loc[t].session_id \notin DOMAIN sessions)
             => LET sid == loc'[t].session_id
                IN /\ sid \notin DOMAIN sessions
                   /\ sid \notin minted
                   /\ DOMAIN sessions' = DOMAIN sessions \cup {sid}
                   /\ sessions'[sid].messages =
                          <<[role |-> "user", content |-> arg[t].message]>>
                   /\ \A other \in DOMAIN sessions :
                          sessions'[other] = sessions[other]
          /\ (pc[t] = "append" /\ pc'[t] = "idle" /\ seen[t].created)
             => /\ result'[t].session_id = loc[t].session_id
                /\ result'[t].session_id
                       \in {s.session_id :
                               s \in ListSessionsBody(sessions').sessions}
      ]_vars

\* C2, witness: a chat call that named a session which was not in the store
\* has returned the id of a session it created, after other ids were retired.
C2_Witness ==
    \E t \in Threads :
        /\ ChatSucceeded(t)
        /\ seen[t].created
        /\ arg[t].session_id # NoSessionId
        /\ result[t].session_id \in ListedIds
        /\ result[t].session_id > 1
        /\ Cardinality(minted) > Cardinality(DOMAIN sessions)

\* C3: in every reachable state every stored session has at most
\* 2 * max_history_messages messages.
C3_HistoryBounded ==
    \A sid \in DOMAIN sessions :
        Len(sessions[sid].messages) <= 2 * max_history_messages

\* C4: when the N-th successful chat call in a row on one session returns,
\* that session has min(2N, 2 * max_history_messages) messages.  (Session 1
\* is the session of every call made so far exactly when a call returns
\* its id: ids are not reused.)
C4_TurnCount ==
    \A t \in Threads :
        (ChatSucceeded(t) /\ result[t].session_id = 1
             /\ 1 \in DOMAIN sessions)
        => Len(sessions[1].messages)
               = Min(2 * chats, 2 * max_history_messages)

\* C5: when a chat call has returned, the store holds at most max_sessions
\* sessions.
C5_StoreBounded ==
    \A t \in Threads :
        ChatReturned(t) => Cardinality(DOMAIN sessions) <= max_sessions

\* The eviction order of _cleanup_old_sessions: a session that a cleanup
\* removes for capacity was not accessed later than any session it keeps.
CleanupEvictsOldestFirst ==
    [][\A t \in Threads :
          (pc[t] = "cleanup" /\ pc'[t] = "session_acquire")
          => \A gone \in DOMAIN sessions \ DOMAIN sessions' :
                 \/ now - sessions[gone].last_access > session_timeout
                 \/ \A kept \in DOMAIN sessions' :
                        sessions[gone].last_access <= sessions[kept].last_access
      ]_vars

\* C6: a chat call that found more than max_sessions sessions in the store
\* when it started has left exactly max_sessions sessions in it when it
\* returns.
C6_KeepsMostRecent ==
    \A t \in Threads :
        (ChatReturned(t) /\ seen[t].size > max_sessions)
        => Cardinality(DOMAIN sessions) = max_sessions

\* C7: the cleanup at the top of a chat call removes every session whose
\* last access is older than session_timeout at that moment, whichever
\* session the call names; a session that has left the store never comes
\* back, and list_sessions returns the sessions of the store and no others;
\* a chat call that names a session which was expired at its cleanup
\* continues in a new session with another id, whose only message is the
\* user message of the call.
C7_ExpiredSessionsRemoved ==
    [][\A t \in Threads :
          /\ (pc[t] = "cleanup" /\ pc'[t] = "session_acquire")
             => \A sid \in DOMAIN sessions :
                    now - sessions[sid].last_access > session_timeout
                    => sid \notin DOMAIN sessions'
          /\ \A sid \in minted \ DOMAIN sessions : sid \notin DOMAIN sessions'
          /\ (pc[t] = "list_sessions" /\ pc'[t] = "idle")
             => {s.session_id : s \in result'[t].sessions} = DOMAIN sessions
          /\ (pc[t] = "session" /\ pc'[t] = "generate" /\ seen[t].named_expired)
             => /\ loc'[t].session_id # arg[t].session_id
                /\ arg[t].session_id \notin DOMAIN sessions'
                /\ sessions'[loc'[t].session_id].messages =
                       <<[role |-> "user", content |-> arg[t].message]>>
                /\ loc'[t].prompt.messages =
                       <<[role |-> "user", content |-> arg[t].message]>>
      ]_vars

\* C7, witness: a chat call that named a session which had expired has
\* returned another id, and the session it named is no longer stored.
C7_Witness ==
    \E t \in Threads :
        /\ ChatSucceeded(t)
        /\ seen[t].named_present
        /\ seen[t].named_expired
        /\ result[t].session_id # arg[t].session_id
        /\ arg[t].session_id \in minted \ DOMAIN sessions

\* C8: a get_history or delete_history call with a session id that is not in
\* the store leaves the store as it is (ids, messages and timestamps) in
\* every step it takes, and returns the error "Session not found".
C8_UnknownSessionNoChange ==
    [][\A t \in Threads :
          (op[t] \in {"get_history", "delete_history"}
               /\ pc[t] # "idle"
               /\ pc'[t] # pc[t]
               /\ arg[t].session_id \notin DOMAIN sessions)
          => /\ sessions' = sessions
             /\ pc'[t] = "idle"
                => /\ result'[t].kind = "error"
                   /\ result'[t].error = "Session not found"
      ]_vars

\* C8, witness: get_history has returned "Session not found" for an id that
\* is not in the store, while the store holds a session last accessed at an
\* earlier time.
C8_Witness ==
    \E t \in Threads :
        /\ pc[t] = "idle"
        /\ op[t] = "get_history"
        /\ result[t].kind = "error"
        /\ arg[t].session_id \notin DOMAIN sessions
        /\ \E sid \in DOMAIN sessions : sessions[sid].last_access < now

\* C9: when the generation of a chat call fails, the call returns a result
\* with an error and without a response, the store is as the call left it
\* when it added its user message, that message is the last of its session,
\* the session holds no assistant message of the call, and from the moment
\* the user message was added no step of the call changes any session;
\* adding the user message changes no other session.
C9_GenerationFailure ==
    [][\A t \in Threads :
          /\ (pc[t] = "generating" /\ pc'[t] = "idle")
             => LET sid == loc[t].session_id
                    messages == sessions'[sid].messages
                IN /\ result'[t] = [kind |-> "error",
                                    error |-> "generation failed"]
                   /\ sid \in DOMAIN sessions'
                   /\ messages = loc[t].prompt.messages
                   /\ messages[Len(messages)] =
                          [role |-> "user", content |-> arg[t].message]
                   /\ \A i \in 1 .. Len(messages) :
                          messages[i].role = "assistant"
                          => messages[i].content \in 1 .. arg[t].message - 1
                   /\ sessions' = sessions
          /\ (pc[t] \in {"generate", "read_acquire", "read", "generating"}
                  /\ pc'[t] # pc[t] /\ pc'[t] \notin {"process"})
             => sessions' = sessions
          /\ (pc[t] = "session" /\ pc'[t] = "generate")
             => \A other \in DOMAIN sessions \ {loc'[t].session_id} :
                    /\ other \in DOMAIN sessions'
                    /\ sessions'[other] = sessions[other]
      ]_vars

\* C9, witness: a chat call on a session that held an earlier exchange has
\* returned a generation error.
C9_Witness ==
    \E t \in Threads :
        /\ ChatFailed(t)
        /\ result[t].error = "generation failed"
        /\ ~seen[t].created
        /\ loc[t].session_id \in DOMAIN sessions
        /\ Len(sessions[loc[t].session_id].messages) >= 2

\* C10: when the load of a model or of its tokenizer fails in a chat call,
\* the call returns a result with an error, self.models and self.tokenizers
\* are what they were when the call started to look for the model, neither
\* has an entry for the model, and whenever models_lock is free the two maps
\* have the same keys.
C10_LoadFailure ==
    [][\A t \in Threads :
          /\ (pc[t] = "loading" /\ pc'[t] = "idle")
             => /\ result'[t].kind = "error"
                /\ models' = models
                /\ tokenizers' = tokenizers
                /\ loc[t].used_model \notin DOMAIN models'
                /\ loc[t].used_model \notin DOMAIN tokenizers'
          /\ (pc[t] \in {"generate", "load_acquire", "load_check"}
                  /\ pc'[t] # pc[t])
             => models' = models /\ tokenizers' = tokenizers
          /\ models_lock' = Free => DOMAIN models' = DOMAIN tokenizers'
      ]_vars

\* C10, witness: a chat call that asked for a model which was not loaded has
\* returned the load error, and the model is in neither map.
C10_Witness ==
    \E t \in Threads :
        /\ ChatFailed(t)
        /\ result[t].error = "load failed"
        /\ loc[t].used_model # DefaultModel
        /\ loc[t].used_model \notin DOMAIN models
        /\ loc[t].used_model \notin DOMAIN tokenizers

\* C11: an entry of self.models or self.tokenizers, once installed, is
\* never replaced or removed: no step changes the handle stored for a model
\* name, whatever the interleaving of the callers that load it.
C11_FirstWriterWins ==
    [][/\ \A m \in DOMAIN models :
              m \in DOMAIN models' /\ models'[m] = models[m]
       /\ \A m \in DOMAIN tokenizers :
              m \in DOMAIN tokenizers' /\ tokenizers'[m] = tokenizers[m]
      ]_vars

\* C12: a caller that has seen a model name in self.models finds the model
\* and its tokenizer when it reads them under models_lock; the two handles
\* it takes away come from the same load, and no chat ends in a KeyError.
C12_ObservedEntryUsable ==
    \A t \in Threads :
        /\ pc[t] = "read"
           => /\ loc[t].used_model \in DOMAIN models
              /\ loc[t].used_model \in DOMAIN tokenizers
              /\ models[loc[t].used_model] = tokenizers[loc[t].used_model]
        /\ pc[t] = "generating"
           => loc[t].model # None /\ loc[t].tokenizer = loc[t].model
        /\ ChatFailed(t) => result[t].error # "KeyError"

\* C12, witness: a caller reads, under the lock, a model that the other
\* caller loaded and installed while both chat calls were running.
C12_Witness ==
    \E t, u \in Threads :
        /\ t # u
        /\ pc[t] = "read"
        /\ loc[t].loaded = None
        /\ loc[t].used_model # DefaultModel
        /\ models[loc[t].used_model] = u
        /\ pc[u] \in WithSession

\* The positions at which a thread waits for sessions_lock, and for
\* models_lock.
SessionsLockWaits ==
    {"cleanup_acquire", "session_acquire", "append_acquire",
     "get_history_acquire", "delete_history_acquire", "list_sessions_acquire"}

ModelsLockWaits ==
    {"load_acquire", "install_acquire", "read_acquire",
     "get_loaded_models_acquire"}

C14_NoLockWhileGenerating ==
    \A t \in Threads :
        pc[t] \in {"loading", "generating"}
        => /\ sessions_lock # t
           /\ models_lock # t
           /\ \A u \in Threads \ {t} :
                 /\ pc[u] \in SessionsLockWaits
                    => sessions_lock = Free \/ pc[sessions_lock] \notin
                           {"loading", "generating"}
                 /\ pc[u] \in ModelsLockWaits
                    => models_lock = Free \/ pc[models_lock] \notin
                           {"loading", "generating"}

\* C14, witness: one caller is inside get_history, holding sessions_lock,
\* while the generation of the other caller's chat is pending.
C14_Witness ==
    \E t, u \in Threads :
        /\ t # u
        /\ pc[t] = "generating"
        /\ pc[u] = "get_history"
        /\ sessions_lock = u
        /\ arg[u].session_id = loc[t].session_id


\* C17: the rule-based improvement is a function of the prompt and the
\* problem alone (a call changes nothing but its result, and a repeated call,
\* by any thread at any time, returns what the first returned), and its
\* output never has the separator '、' twice in succession.
C17_ImprovePure ==
    /\ sessions = <<>> /\ orphans = <<>> /\ tokenizers = models
    /\ DOMAIN models = {DefaultModel}
    /\ \A t \in Threads :
          result[t].kind \in {"improved", "repeated"} =>
              /\ result[t].text = result[t].first
              /\ \A u \in Threads :
                    result[u].kind \in {"improved", "repeated"} => result[u].text = result[t].text
              /\ \A i \in 1 .. Len(result[t].text) - 1 :
                    ~(result[t].text[i] = "sep" /\ result[t].text[i + 1] = "sep")

\* improve_prompt was given a prompt in which '、' follows '、', and the
\* call was repeated later.
C17_Witness ==
    \E t \in Threads :
        /\ result[t].kind = "repeated"
        /\ now > 0
        /\ \E i \in 1 .. Len(arg[t].original_prompt) - 1 :
              /\ arg[t].original_prompt[i] = "sep"
              /\ arg[t].original_prompt[i + 1] = "sep"
        /\ Contains(result[t].text, "sep")

\* C15: whatever the backend returns, whatever the task type and the
\* message, chat does not fail and its response is a non-empty text:
\* every assistant message in the store has non-empty content.
C15_ResponseNonEmpty ==
    /\ \A t \in Threads :
          /\ result[t].kind # "error"
          /\ result[t].kind = "response" => result[t].response # <<>>
    /\ \A id \in DOMAIN sessions : \A i \in 1 .. Len(sessions[id].messages) :
          sessions[id].messages[i].role = "assistant" => sessions[id].messages[i].content # <<>>

\* C16: in an image_prompt_improvement chat whose message has a prompt
\* section, a backend text with two or more Latin-letter words is never the
\* response: the response is the rule-based improvement of the prompt and
\* the problem of the message.
C16_LatinWordsRejected ==
    \A t \in Threads :
        /\ pc[t] \in {"append_acquire", "append"}
        /\ loc[t].process_task_type = "image_prompt_improvement"
        /\ ExtractOriginalPrompt(arg[t].message)[1] # <<>>
        /\ EnglishWords(loc[t].decoded) >= 2
        => loc[t].response_text
               = ImprovePrompt(ExtractOriginalPrompt(arg[t].message)[1], ExtractOriginalPrompt(arg[t].message)[2])

\* C18: delete_history with a session id that is in the store returns
\* success and removes that session and no other; every other session keeps
\* its messages, system prompt, model, task type and timestamps.
C18_DeleteRemovesOnlyThat ==
    [][\A t \in Threads :
          (op[t] = "delete_history"
               /\ pc[t] # "idle"
               /\ pc'[t] # pc[t]
               /\ arg[t].session_id \in DOMAIN sessions)
          => IF pc'[t] = "idle"
             THEN /\ result'[t].kind = "deleted"
                  /\ result'[t].success
                  /\ result'[t].session_id = arg[t].session_id
                  /\ DOMAIN sessions' = DOMAIN sessions \ {arg[t].session_id}
                  /\ \A s \in DOMAIN sessions' : sessions'[s] = sessions[s]
             ELSE sessions' = sessions
      ]_vars

\* C18, witness: delete_history has removed a session that had both
\* messages of a turn, and a session with messages is still in the store.
C18_Witness ==
    \E t \in Threads :
        /\ pc[t] = "idle"
        /\ op[t] = "delete_history"
        /\ result[t].kind = "deleted"
        /\ arg[t].session_id \notin DOMAIN sessions
        /\ \E s \in DOMAIN sessions : Len(sessions[s].messages) >= 2

\* C19: list_sessions returns one summary for each session in the store and
\* no other, total is the number of sessions in the store, message_count is
\* the length of the session's message list, and no step of the call changes
\* the store.
C19_ListSessionsExact ==
    [][\A t \in Threads :
          (op[t] = "list_sessions" /\ pc[t] # "idle" /\ pc'[t] # pc[t])
          => /\ sessions' = sessions
             /\ pc'[t] = "idle"
                => /\ result'[t].kind = "sessions"
                   /\ result'[t].total = Cardinality(DOMAIN sessions)
                   /\ Cardinality(result'[t].sessions) = Cardinality(DOMAIN sessions)
                   /\ {s.session_id : s \in result'[t].sessions} = DOMAIN sessions
                   /\ \A s \in result'[t].sessions :
                         /\ s.message_count = Len(sessions[s.session_id].messages)
                         /\ s.last_access = sessions[s.session_id].last_access
      ]_vars

\* C19, witness: list_sessions has returned two summaries, one of a session
\* with a single message, at a time later than a session's last access.
C19_Witness ==
    \E t \in Threads :
        /\ pc[t] = "idle"
        /\ op[t] = "list_sessions"
        /\ result[t].kind = "sessions"
        /\ result[t].total = 2
        /\ \E s \in result[t].sessions : s.message_count = 1
        /\ \E s \in DOMAIN sessions : sessions[s].last_access < now

Alternates(messages) ==
    \A i \in 1 .. Len(messages) - 1 : messages[i].role # messages[i + 1].role

\* C21: in every session of the store, no two adjacent messages have the
\* same role, also after chat calls whose generation failed.
C21_TurnsAlternate == \A id \in DOMAIN sessions : Alternates(sessions[id].messages)

\* C22: when a successful chat call returns, after successful calls only, all
\* on one session, the messages of that session are complete pairs of a
\* user message and the answer to it, in the order of the calls, up to the
\* pair of the call that returned.
C22_WholePairs ==
    \A t \in Threads :
        (ChatSucceeded(t) /\ result[t].session_id = 1 /\ 1 \in DOMAIN sessions)
        => LET messages == sessions[1].messages
           IN /\ Len(messages) % 2 = 0
              /\ \A i \in 1 .. Len(messages) :
                    /\ messages[i].role = (IF i % 2 = 1 THEN "user" ELSE "assistant")
                    /\ messages[i].content = chats - (Len(messages) - i) \div 2

IsSuffix(short, long) ==
    /\ Len(short) <= Len(long)
    /\ short = SubSeq(long, Len(long) - Len(short) + 1, Len(long))

\* C24: a step changes the message list of a stored session only by a new
\* message at its end and by the loss of its oldest messages: the messages
\* it keeps are the same, in the same order, whatever the callers do at the
\* same time.
C24_AppendOnly ==
    [][\A id \in DOMAIN sessions \cap DOMAIN sessions' :
          LET old == sessions[id].messages
              new == sessions'[id].messages
          IN \/ IsSuffix(new, old)
             \/ /\ new # <<>>
                /\ IsSuffix(new, Append(old, new[Len(new)]))
      ]_vars

\* C24, witness: a session has lost its oldest message to the trimming and
\* got two messages after that.
C24_Witness ==
    \E id \in DOMAIN sessions :
        /\ Len(sessions[id].messages) = 3
        /\ sessions[id].messages[1].role = "assistant"
        /\ sessions[id].messages[3].role = "assistant"

\* C25: a session leaves the store only in a delete_history call on its id or
\* in a cleanup, and a cleanup removes a session only if the session is
\* expired or the store holds more than max_sessions sessions.
C25_RemovalCauses ==
    [][\A id \in DOMAIN sessions \ DOMAIN sessions' :
          \E t \in Threads :
              \/ /\ pc[t] = "delete_history" /\ pc'[t] = "idle"
                 /\ arg[t].session_id = id
              \/ /\ pc[t] = "cleanup" /\ pc'[t] = "session_acquire"
                 /\ \/ now - sessions[id].last_access > session_timeout
                    \/ Cardinality(DOMAIN sessions) > max_sessions
      ]_vars

\* C25, witness: a cleanup found more than max_sessions sessions, none of
\* them expired (no time has passed), and left max_sessions of them.
C25_Witness ==
    \E t \in Threads :
        /\ pc[t] = "session_acquire"
        /\ seen[t].size > max_sessions
        /\ Cardinality(DOMAIN sessions) = max_sessions
        /\ now = 0

\* C26: from the step that adds the user message of a chat call until the
\* call returns, the prompt of the call ends with the user message of the
\* call and does not change, whatever other calls add to the session.
C26_PromptIsOwnCopy ==
    /\ [](\A t \in Threads :
            pc[t] \in WithSession
            => /\ loc[t].prompt.messages # <<>>
               /\ loc[t].prompt.messages[Len(loc[t].prompt.messages)]
                     = [role |-> "user", content |-> arg[t].message])
    /\ [][\A t \in Threads :
            (pc[t] \in WithSession /\ pc'[t] \in WithSession) => loc'[t].prompt = loc[t].prompt]_vars

\* C26, witness: while a chat call is generating, another call has added its
\* user message to the same session, which the prompt of the first does not
\* have.
C26_Witness ==
    \E t \in Threads, u \in Threads :
        /\ t # u
        /\ pc[t] = "generating"
        /\ pc[u] \in WithSession
        /\ loc[u].session_id = loc[t].session_id
        /\ loc[t].session_id \in DOMAIN sessions
        /\ Len(sessions[loc[t].session_id].messages) > Len(loc[t].prompt.messages)
        /\ loc[u].prompt.messages # loc[t].prompt.messages

\* The text before the first format marker that begins a line of a decoded
\* text, or the whole text when no line begins with a marker.
BeforeNextTurn(decoded) ==
    LET at == {i \in 1 .. Len(decoded) - 1 : decoded[i] = "nl" /\ decoded[i + 1] \in FormatMarkers}
    IN IF at = {} THEN decoded ELSE SubSeq(decoded, 1, Lowest(at) - 1)

\* C27: when a line of the decoded backend text begins with a format marker,
\* the text that _generate_response returns is made from the text before
\* that marker alone: what follows the marker is not in it.
C27_CutAtNextTurn ==
    \A t \in Threads :
        pc[t] \in {"process", "append_acquire", "append"}
        => loc[t].generated_text
               = CleanResponse(BeforeNextTurn(loc[t].decoded), loc[t].generate_task_type)

\* The rule-based result for a task type and a message: what
\* _process_task_specific_response returns when there is no backend text.
RuleBasedFallback(task_type, message) == ProcessTaskSpecificResponse(<<>>, task_type, message)

\* C28: in a chat of one of the two image prompt task types, when a sentence
\* of the backend text (markers removed) has an explanation marker, the
\* response is the rule-based result for the task type and the message, not
\* the other sentences of the backend text.
C28_MarkedOutputRejected ==
    \A t \in Threads :
        /\ pc[t] \in {"append_acquire", "append"}
        /\ loc[t].process_task_type \in ImageTasks
        /\ ContainsAny(RemoveMarkers(loc[t].decoded), ExplanationMarkers)
        => loc[t].response_text = RuleBasedFallback(loc[t].process_task_type, arg[t].message)

\* The positions of a chat call inside _load_model and inside the part of
\* _generate_response that uses the model (from line 466 on).
UsesBackend ==
    {"load_acquire", "load_check", "loading", "install_acquire", "install",
     "install_tokenizer", "read_acquire", "read", "generating"}

\* C29: in mock mode no chat call reaches _load_model or the generation with
\* a model, the model cache stays empty, get_loaded_models returns the empty
\* list, and no chat call returns an error.
C29_MockNeverLoads ==
    /\ models = <<>>
    /\ tokenizers = <<>>
    /\ \A t \in Threads :
          /\ pc[t] \notin UsesBackend
          /\ result[t].kind # "error"
          /\ result[t].kind = "models" => result[t].models = {}

\* C29, witness: in mock mode a chat call that named the model "m2" has
\* returned a response and get_loaded_models is about to return.
C29_Witness ==
    /\ use_mock
    /\ \E t \in Threads :
          /\ pc[t] = "get_loaded_models"
          /\ \E id \in DOMAIN sessions :
                /\ sessions[id].model_name = "m2"
                /\ Len(sessions[id].messages) = 2

\* C30: under any interleaving of calls of get_chat_service at most one
\* ChatService object is ever constructed, and every call that returns
\* returns that object.
C30_OneService ==
    /\ instances <= 1
    /\ chat_service \in {NoService, 1}
    /\ \A t \in Threads : result[t].kind = "service" => result[t].service = 1

\* C30, witness: two first calls ran concurrently: one has constructed the
\* service and returned it, the other passed the first test before that and
\* stands at the second test with the lock.
C30_Witness ==
    \E t, u \in Threads :
       /\ result[t].kind = "service"
       /\ pc[u] = "second_check"
       /\ instances = 1

\* ------------------------------------------------------- task classification
\* More tokens, for the messages that _detect_task_type reads:
\*   "wo"  を    "saku"  作    "sei"  生    "nari"  成    "hoshii"  欲しい
\*   "create", "generate", "prompt", "improve"  the lower-case words
\*   "PROMPT"  the word in capitals

\* Longest message given to _detect_task_type.
MaxMessage == 3

\* str.lower of one token.
LowerToken(tok) == IF tok = "PROMPT" THEN "prompt" ELSE tok

\* message.lower(), line 178.
Lower(text) == [i \in 1 .. Len(text) |-> LowerToken(text[i])]

\* keyword in text, for a keyword of several tokens.
ContainsText(text, keyword) == Find(text, keyword, 1) # 0

\* generation_keywords, line 181.
generation_keywords ==
    {<<"prompt_word", "saku", "nari">>, <<"prompt_word", "sei", "nari">>,
     <<"prompt_word", "wo", "saku">>, <<"prompt_word", "wo", "sei">>,
     <<"prompt_word", "hoshii">>, <<"prompt_word", "kudasai">>}

\* A variant of DetectTaskTypeOfText that tests the improvement rules before
\* the generation rules (for C31).
DetectImprovementFirst(message) ==
    LET message_lower == Lower(message)
    IN IF \/ ContainsText(message, <<"kaizen", "prompt_word">>)
          \/ Contains(message, "kaizen") /\ Contains(message, "prompt_word")
       THEN "image_prompt_improvement"
       ELSE IF Contains(message_lower, "prompt") /\ Contains(message_lower, "improve")
       THEN "image_prompt_improvement"
       ELSE IF \E keyword \in generation_keywords : ContainsText(message_lower, keyword)
       THEN "image_prompt_generation"
       ELSE IF Contains(message_lower, "create") /\ Contains(message_lower, "prompt")
       THEN "image_prompt_generation"
       ELSE IF Contains(message_lower, "generate") /\ Contains(message_lower, "prompt")
       THEN "image_prompt_generation"
       ELSE "general"

\* _detect_task_type, lines 178-195, over the text of the message: the five
\* tests in the order of the code, each returning at once.
DetectTaskTypeOfText(message) ==
    LET message_lower == Lower(message)
    IN IF \E keyword \in generation_keywords : ContainsText(message_lower, keyword)
       THEN "image_prompt_generation"
       ELSE IF Contains(message_lower, "create") /\ Contains(message_lower, "prompt")
       THEN "image_prompt_generation"
       ELSE IF Contains(message_lower, "generate") /\ Contains(message_lower, "prompt")
       THEN "image_prompt_generation"
       ELSE IF \/ ContainsText(message, <<"kaizen", "prompt_word">>)
               \/ Contains(message, "kaizen") /\ Contains(message, "prompt_word")
       THEN "image_prompt_improvement"
       ELSE IF Contains(message_lower, "prompt") /\ Contains(message_lower, "improve")
       THEN "image_prompt_improvement"
       ELSE "general"

\* The tokens of the classified messages.
ClassifyTokens ==
    {"prompt_word", "wo", "saku", "kudasai", "kaizen", "create", "PROMPT", "prompt",
     "improve", "j"}

\* _detect_task_type is about to be applied to a message.
ClassifyInit ==
    /\ Constructed
    /\ loc = [t \in Threads |-> NoLoc]
    /\ \E message \in Texts(ClassifyTokens, MaxMessage) :
          arg = [t \in Threads |-> [NoArg EXCEPT !.message = message]]

\* A call of _detect_task_type(message) by thread t.
DetectTaskTypeCall(t) ==
    /\ pc[t] = "idle"
    /\ result[t].kind = "none"
    /\ result' = [result EXCEPT ![t] =
                    [kind |-> "task_type", task_type |-> DetectTaskTypeOfText(arg[t].message)]]
    /\ UNCHANGED <<chat_service, chat_service_lock, instances, sessions, orphans,
                   models, tokenizers, sessions_lock, models_lock, use_mock, now,
                   nextId, minted, chats, pc, op, arg, loc, seen>>

ClassifyNext == \E t \in Threads : DetectTaskTypeCall(t)

ClassifySpec == ClassifyInit /\ [][ClassifyNext]_vars

\* The generation-intent rule: a generation phrase, or "create" or
\* "generate" together with "prompt", in any case of the Latin letters.
GenerationIntent(message) ==
    \/ \E keyword \in generation_keywords : ContainsText(message, keyword)
    \/ /\ ContainsAny(message, {"create", "generate"})
       /\ ContainsAny(message, {"prompt", "PROMPT"})

\* The improvement-intent rule: 改善 together with プロンプト, or "improve"
\* together with "prompt", in any case of the Latin letters.
ImprovementIntent(message) ==
    \/ Contains(message, "kaizen") /\ Contains(message, "prompt_word")
    \/ Contains(message, "improve") /\ ContainsAny(message, {"prompt", "PROMPT"})

\* C31: the classification is total, a message that matches the generation
\* rule is image_prompt_generation also when it matches the improvement rule,
\* a message that matches only the improvement rule is
\* image_prompt_improvement, and every other message is general.
C31_FirstMatchWins ==
    \A t \in Threads :
       result[t].kind = "task_type" =>
          /\ result[t].task_type \in TaskTypes
          /\ result[t].task_type =
                IF GenerationIntent(arg[t].message) THEN "image_prompt_generation"
                ELSE IF ImprovementIntent(arg[t].message) THEN "image_prompt_improvement"
                ELSE "general"

\* C31, witness: a message that matches both rules (改善, プロンプト, ください)
\* has been classified.
C31_Witness ==
    \E t \in Threads :
       /\ result[t].kind = "task_type"
       /\ GenerationIntent(arg[t].message)
       /\ ImprovementIntent(arg[t].message)
       /\ Contains(arg[t].message, "PROMPT") \/ Contains(arg[t].message, "kaizen")

\* C32: a session id that has left the store never is a key of the store
\* again, and a chat call whose session has left the store while it waited
\* for the generation changes no stored session when it appends its assistant
\* message, and returns a response that names the session id it used.
C32_RemovedStaysRemoved ==
    [][/\ \A id \in minted \ DOMAIN sessions : id \notin DOMAIN sessions'
       /\ \A t \in Threads :
             (pc[t] = "append" /\ pc'[t] = "idle" /\ loc[t].session_id \notin DOMAIN sessions)
             => /\ sessions' = sessions
                /\ result'[t].kind = "response"
                /\ result'[t].session_id = loc[t].session_id
                /\ result'[t].session_id \in minted]_vars

\* C32, witness: a chat call has returned a response for a session that is
\* no longer in the store, while another session is in the store.
C32_Witness ==
    /\ ChatSucceeded("t1")
    /\ result["t1"].session_id \notin DOMAIN sessions
    /\ DOMAIN sessions # {}
    /\ now > 0

\* A chat call of thread t is in progress.
ChatInProgress(t) == op[t] = "chat" /\ pc[t] # "idle"

\* No two chat calls are in progress at the same time.
OneChatAtATime == Cardinality({t \in Threads : ChatInProgress(t)}) <= 1

\* C33: with the chat calls of K threads in progress at the same time the
\* store never holds more than max_sessions + K sessions: at most
\* max_sessions + 2 with the two threads, and at most max_sessions + 1 in
\* every behaviour in which the chat calls run one at a time.
C33_CapacityPerCaller ==
    /\ [](Cardinality(DOMAIN sessions) <= max_sessions + Cardinality(Threads))
    /\ ([]OneChatAtATime => [](Cardinality(DOMAIN sessions) <= max_sessions + 1))

\* C33, witness: two chat calls, both past their cleanup, have each created a
\* session, and the store holds max_sessions + 2 sessions.
C33_Witness ==
    /\ Cardinality(DOMAIN sessions) = max_sessions + 2
    /\ \A t \in Threads : ChatInProgress(t) /\ seen[t].created

\* ------------------------------------------- the task type of a session
\* chat(message, session_id=1, system_prompt=..., task_type=...), lines
\* 671-675, for a message given as a text: the second call, on the session of
\* the first; a task_type that is None is detected from the message.
StoredChatCall(t) ==
    /\ pc[t] = "idle"
    /\ chats = 1
    /\ \E message \in Messages, task_type \in TaskTypes \cup {None}, system_prompt \in {None, "custom instructions"} :
         /\ arg' = [arg EXCEPT ![t] =
               [NoArg EXCEPT !.message = message, !.session_id = 1,
                             !.system_prompt = system_prompt, !.task_type = task_type]]
         /\ loc' = [loc EXCEPT ![t] =
               [NoLoc EXCEPT
                  !.session_id = 1,
                  !.model_name = DefaultModel,
                  !.task_type = IF task_type = None THEN DetectTaskTypeOfText(message)
                                ELSE task_type]]
    /\ chats' = chats + 1
    /\ op' = [op EXCEPT ![t] = "chat"]
    /\ pc' = [pc EXCEPT ![t] = "cleanup_acquire"]
    /\ result' = [result EXCEPT ![t] = NoResult]
    /\ seen' = [seen EXCEPT ![t] = NoSeen]
    /\ UNCHANGED <<chat_service, chat_service_lock, instances, sessions, orphans,
                   models, tokenizers, sessions_lock, models_lock, use_mock, now,
                   nextId, minted>>

\* The texts of a backend that writes kana, kanji and a Latin word.
StoredTexts == Texts({"jj", "kk", "professional"}, MaxRaw)

\* _generate_response with a backend that answers the first call with a
\* plain sentence and the second with a text of StoredTexts.
GenerateStored(t) == GenerateFrom(t, IF chats = 1 THEN {<<"jj">>} ELSE StoredTexts)

\* Two chat calls of one caller on one session, text by text.
StoredNext ==
    \/ TextChatCall("t1")
    \/ StoredChatCall("t1")
    \/ CleanupAcquire("t1")
    \/ Cleanup("t1")
    \/ SessionAcquire("t1")
    \/ SessionStep("t1")
    \/ GenerateStart("t1")
    \/ ReadAcquire("t1")
    \/ ReadModel("t1")
    \/ GenerateStored("t1")
    \/ ProcessText("t1")
    \/ AppendAcquire("t1")
    \/ AppendAssistant("t1")

StoredSpec == RealInit /\ [][StoredNext]_vars

\* The chat call of thread t names session 1, which is in the store, and
\* supplies no system prompt.
OnStoredSession(t) ==
    /\ op[t] = "chat"
    /\ arg[t].session_id = 1
    /\ 1 \in DOMAIN sessions
    /\ ~Truthy(arg[t].system_prompt)

\* C34: no step of a chat call on a stored session without a system prompt
\* changes the task type of the session, and the cleaning of the backend
\* text and the response of the call are those of the stored task type,
\* whatever the message and the task_type argument of the call are.
C34_StoredTaskTypeDecides ==
    /\ [](\A t \in Threads :
            (OnStoredSession(t) /\ pc[t] \in {"append_acquire", "append"})
            => /\ loc[t].generated_text =
                     CleanResponse(loc[t].decoded, sessions[1].task_type)
               /\ loc[t].response_text =
                     ProcessTaskSpecificResponse(loc[t].generated_text,
                         sessions[1].task_type, arg[t].message))
    /\ [][\A t \in Threads :
            (OnStoredSession(t) /\ pc[t] # "idle")
            => /\ 1 \in DOMAIN sessions'
               /\ sessions'[1].task_type = sessions[1].task_type]_vars

\* C34, witness: a call on a general session, with an improvement message
\* and the task_type argument image_prompt_generation, has as its response the
\* cleaned backend text, which neither of the other task types would give.
C34_Witness ==
    \E t \in Threads :
       /\ OnStoredSession(t)
       /\ pc[t] = "append"
       /\ sessions[1].task_type = "general"
       /\ arg[t].task_type = "image_prompt_generation"
       /\ DetectTaskTypeOfText(arg[t].message) = "image_prompt_improvement"
       /\ loc[t].response_text = loc[t].generated_text
       /\ \A other \in ImageTasks :
             ProcessTaskSpecificResponse(CleanResponse(loc[t].decoded, other), other, arg[t].message)
                 # loc[t].response_text

\* C35: get_history on a session of the store, expired or not, sets its last
\* access to the time of the call, changes nothing else in the store and
\* returns all its messages; a session whose last access is not older than
\* session_timeout is not removed by a cleanup unless the sessions that are
\* not expired exceed max_sessions; and the messages returned stay as they
\* are while other calls append to the session.
C35_GetHistoryRefreshes ==
    [][/\ \A t \in Threads :
            (op[t] = "get_history" /\ pc[t] # "idle" /\ pc'[t] # pc[t]
                 /\ arg[t].session_id \in DOMAIN sessions)
            => IF pc'[t] = "idle"
               THEN /\ sessions' = [sessions EXCEPT ![arg[t].session_id].last_access = now]
                    /\ result'[t].kind = "history"
                    /\ result'[t].session_id = arg[t].session_id
                    /\ result'[t].messages = sessions[arg[t].session_id].messages
               ELSE sessions' = sessions
       /\ \A t \in Threads :
            (pc[t] = "cleanup" /\ pc'[t] = "session_acquire")
            => \A id \in DOMAIN sessions :
                  (/\ now - sessions[id].last_access <= session_timeout
                   /\ Cardinality({s \in DOMAIN sessions :
                          now - sessions[s].last_access <= session_timeout}) <= max_sessions)
                  => id \in DOMAIN sessions'
       /\ \A t \in Threads :
            (op[t] = "get_history" /\ pc[t] = "idle" /\ pc'[t] = "idle")
            => result'[t] = result[t]]_vars

\* C35, witness: get_history has returned the two messages of a session whose
\* last access was older than session_timeout; a chat call that started later
\* has cleaned up without removing the session and has added its messages.
C35_Witness ==
    \E t \in Threads, id \in DOMAIN sessions :
       /\ op[t] = "get_history"
       /\ pc[t] = "idle"
       /\ result[t].kind = "history"
       /\ result[t].session_id = id
       /\ Len(result[t].messages) = 2
       /\ sessions[id].created_at = 0
       /\ sessions[id].last_access = session_timeout + 1
       /\ Len(sessions[id].messages) > 2

\* The message has no section labelled 改善したいプロンプト.
NoPromptSection(message) == Find(message, PromptLabel, 1) = 0

\* C36: for a call of task type image_prompt_improvement whose message has no
\* labelled prompt section, the response is the fixed text that the prompt
\* could not be identified, whatever the backend returned.
C36_NoSectionFixedMessage ==
    \A t \in Threads :
       /\ (/\ pc[t] \in {"append_acquire", "append"}
           /\ loc[t].process_task_type = "image_prompt_improvement"
           /\ NoPromptSection(arg[t].message))
          => loc[t].response_text = <<"no_prompt">>
       /\ (/\ ChatSucceeded(t)
           /\ loc[t].process_task_type = "image_prompt_improvement"
           /\ NoPromptSection(arg[t].message))
          => result[t].response = <<"no_prompt">>

\* C36, witness: the response is the fixed text although the backend text
\* would have been taken as it is for a message with a prompt section.
C36_Witness ==
    \E t \in Threads :
       /\ ChatSucceeded(t)
       /\ loc[t].process_task_type = "image_prompt_improvement"
       /\ NoPromptSection(arg[t].message)
       /\ arg[t].message # <<>>
       /\ result[t].response = <<"no_prompt">>
       /\ loc[t].generated_text # <<>>
       /\ ProcessPromptImprovementRequest(PromptLabel \o <<"quality">>, loc[t].generated_text)
             = Strip(loc[t].generated_text)

\* The chat call of thread t named a session id that was not in the store,
\* and has created its session.
CreatedDespiteId(t) ==
    /\ op[t] = "chat"
    /\ arg[t].session_id # NoSessionId
    /\ seen[t].created

\* C37: a chat call that names a session id which is not in the store creates
\* its session under an id that was never used and is not the named one,
\* returns that id, and leaves the named id out of the store, so that
\* get_history answers "Session not found" for it.
C37_NoSessionUnderGivenId ==
    /\ [](\A t \in Threads :
            CreatedDespiteId(t)
            => /\ arg[t].session_id \notin DOMAIN sessions
               /\ loc[t].session_id # arg[t].session_id
               /\ ChatSucceeded(t) => result[t].session_id # arg[t].session_id)
    /\ [][/\ \A t \in Threads :
               (pc[t] = "session" /\ pc'[t] = "generate"
                    /\ arg[t].session_id # NoSessionId
                    /\ arg[t].session_id \notin DOMAIN sessions)
               => /\ loc'[t].session_id \notin minted \cup {arg[t].session_id}
                  /\ DOMAIN sessions' = DOMAIN sessions \cup {loc'[t].session_id}
          /\ \A t, u \in Threads :
               (/\ CreatedDespiteId(t)
                /\ op[u] = "get_history" /\ pc[u] = "get_history" /\ pc'[u] = "idle"
                /\ arg[u].session_id = arg[t].session_id)
               => /\ result'[u].kind = "error"
                  /\ result'[u].error = "Session not found"]_vars

\* C37, witness: a chat call that named the id of nobody's session has
\* returned another id, under which its session is stored, and get_history
\* has answered "Session not found" for the named id.
C37_Witness ==
    \E t, u \in Threads :
       /\ ChatSucceeded(t)
       /\ CreatedDespiteId(t)
       /\ arg[t].session_id = ForeignId
       /\ result[t].session_id \in DOMAIN sessions
       /\ op[u] = "get_history" /\ pc[u] = "idle"
       /\ arg[u].session_id = ForeignId
       /\ result[u].kind = "error"
====
